---- MODULE Spec2Model ----
(***************************************************************************)
(* A model of cdd-context: the content-addressed summary cache (cache.py), *)
(* the manifest differ (cache.py, compute_changes), the ignore-pattern     *)
(* matcher (scanner.py) and the build / build --changes commands (cli.py). *)
(***************************************************************************)
EXTENDS Integers, Sequences, FiniteSets, TLC

VARIABLES
    files,      \* cache directory: entry file name -> content
    tmpfiles,   \* number of .tmp_*.json files present in the cache directory
    stats,      \* CacheStats of the Cache instance
    last,       \* the last cache operation: its arguments and its outcome
    nops,       \* number of operations performed so far
    prev,       \* the manifest of the last full build (last_build.json)
    cur_files,  \* the current snapshot given to compute_changes
    changes,    \* run -> the ChangeSet that evaluation of compute_changes returned
    ig_path,    \* the path tested against the ignore patterns
    ig_patterns,\* the ignore patterns loaded so far, in file order
    ig_ignored, \* _should_ignore(ig_path, ig_patterns)
    m_path,     \* the path given to _matches_pattern
    m_pattern,  \* the pattern given to _matches_pattern
    m_result,   \* what _matches_pattern returned: "unset" before the call
    tree,       \* the files under the project root: path -> content digest
    git_mode,   \* whether the root holds .git and git confirms it is the top level
    gitignore,  \* the paths git's standard excludes hide from ls-files
    git_on_path,\* whether shutil.which("git") resolves the git binary
    unmerged,   \* the paths the index holds in several stages (a merge in progress)
    gitmodules, \* the path values registered in .gitmodules
    git_runs,   \* how the git subprocesses end: rev-parse and ls-files
    scanned,    \* what the last direct call of scan returned
    hash_inputs,\* ignore mode -> what _compute_scan_hash digested for cur_files
    ran,        \* the last command run on the root and its exit code
    steps,      \* number of commands and edits so far
    pc,         \* process -> where it stands in _save_entry or _load_entry
    temps,      \* writer -> content of the temporary file mkstemp gave it
    handle      \* what the reader's last open of the entry file yielded

cache_vars == <<files, tmpfiles, stats, last, nops>>

diff_vars == <<prev, cur_files, changes>>

ignore_vars == <<ig_path, ig_patterns, ig_ignored, m_path, m_pattern, m_result>>

build_vars == <<tree, git_mode, gitignore, ran, steps>>

scan_vars == <<git_on_path, unmerged, gitmodules, git_runs, scanned, hash_inputs>>

proc_vars == <<pc, temps, handle>>

vars ==
    <<files, tmpfiles, stats, last, nops, prev, cur_files, changes,
      ig_path, ig_patterns, ig_ignored, m_path, m_pattern, m_result,
      tree, git_mode, gitignore, ran, steps,
      git_on_path, unmerged, gitmodules, git_runs, scanned, hash_inputs,
      pc, temps, handle>>

\* ------------------------------------------------------------------ bounds

\* Number of operations a behaviour of the cache performs.
MaxOps == 2

\* Number of distinct paths in the snapshots given to compute_changes.
NumDiffPaths == 3

\* Number of ignore patterns loaded from the ignore files.
MaxPatterns == 3

\* Length of the patterns given to _matches_pattern.
MaxPatternLen == 5

\* Number of commands and edits on a project root.
MaxSteps == 2

\* ------------------------------------------------------------------ cache.py

\* Source paths. "a.py" and "b.py" are two paths whose truncated hashes collide.
Paths == {"a.py", "b.py", "c.py"}

\* hashlib.sha256(path)[:16]: a deterministic function of the path, not injective.
path_hash(path) ==
    CASE path = "a.py" -> "h1"
      [] path = "b.py" -> "h1"
      [] OTHER -> "h2"

\* The entry file of a path: cache_dir / (path_hash + ".json").
cache_file(path) == path_hash(path)

CacheFiles == {cache_file(p) : p \in Paths}

SourceHashes == {"s1", "s2"}
PromptHashes == {"p1", "p2"}
BackendIds == {"b1", "b2"}
ToolVersions == {"v1", "v2"}

\* CacheKey
CacheKey(sh, ph, b, v) ==
    [source_hash |-> sh, prompt_hash |-> ph, backend_id |-> b, tool_version |-> v]

Keys ==
    {CacheKey(sh, ph, b, v) :
        sh \in SourceHashes, ph \in PromptHashes, b \in BackendIds, v \in ToolVersions}

\* The keys the callers store under.
PutKeys == {CacheKey("s1", "p1", "b1", "v1"), CacheKey("s2", "p2", "b2", "v2")}

\* The keys the callers look up: the stored ones and those that differ from
\* the first in one component (and so from the second in three).
GetKeys ==
    PutKeys \cup
    {CacheKey("s2", "p1", "b1", "v1"), CacheKey("s1", "p2", "b1", "v1"),
     CacheKey("s1", "p1", "b2", "v1"), CacheKey("s1", "p1", "b1", "v2")}

\* Summaries: JSON objects, named by their Python str().
None == "None"
Summaries == {"{}", "{'k': 1}"}

\* len(str(summary))
str_len(summary) == IF summary = "{}" THEN 2 ELSE 8

PutTokens == {1}

\* CacheEntry
CacheEntry(path, key, summary, approx_tokens) ==
    [path |-> path,
     source_hash |-> key.source_hash,
     prompt_hash |-> key.prompt_hash,
     backend_id |-> key.backend_id,
     tool_version |-> key.tool_version,
     summary |-> summary,
     timestamp |-> "now",
     approx_tokens |-> approx_tokens]

EntryFields ==
    {"path", "source_hash", "prompt_hash", "backend_id", "tool_version",
     "summary", "timestamp", "approx_tokens"}

\* Fields of CacheEntry without a default value.
RequiredFields == EntryFields \ {"approx_tokens"}

BlankEntry == CacheEntry("", CacheKey("", "", "", ""), None, 0)

\* A comparison that tests the tool version before the backend id and names
\* the wrong one.
matches_swapped(entry, key) ==
    IF entry.source_hash # key.source_hash THEN [ok |-> FALSE, reason |-> "source_changed"]
    ELSE IF entry.prompt_hash # key.prompt_hash THEN [ok |-> FALSE, reason |-> "prompt_changed"]
    ELSE IF entry.tool_version # key.tool_version THEN [ok |-> FALSE, reason |-> "backend_changed"]
    ELSE IF entry.backend_id # key.backend_id THEN [ok |-> FALSE, reason |-> "tool_changed"]
    ELSE [ok |-> TRUE, reason |-> None]

\* A comparison that starts from the last component.
matches_tool_first(entry, key) ==
    IF entry.tool_version # key.tool_version THEN [ok |-> FALSE, reason |-> "tool_changed"]
    ELSE IF entry.backend_id # key.backend_id THEN [ok |-> FALSE, reason |-> "backend_changed"]
    ELSE IF entry.prompt_hash # key.prompt_hash THEN [ok |-> FALSE, reason |-> "prompt_changed"]
    ELSE IF entry.source_hash # key.source_hash THEN [ok |-> FALSE, reason |-> "source_changed"]
    ELSE [ok |-> TRUE, reason |-> None]

\* CacheEntry.matches: (matches, staleness_reason)
matches(entry, key) ==
    IF entry.source_hash # key.source_hash THEN [ok |-> FALSE, reason |-> "source_changed"]
    ELSE IF entry.prompt_hash # key.prompt_hash THEN [ok |-> FALSE, reason |-> "prompt_changed"]
    ELSE IF entry.backend_id # key.backend_id THEN [ok |-> FALSE, reason |-> "backend_changed"]
    ELSE IF entry.tool_version # key.tool_version THEN [ok |-> FALSE, reason |-> "tool_changed"]
    ELSE [ok |-> TRUE, reason |-> None]

\* ---- persisted files
\* A file is absent, unreadable (open() raises OSError), bytes that are not
\* UTF-8, text that is not JSON, JSON that is not an object, or a JSON object
\* with a set of keys and their values.
Absent == [kind |-> "absent", keys |-> {}, vals |-> BlankEntry]

FileOf(kind, keys, vals) == [kind |-> kind, keys |-> keys, vals |-> vals]

\* A writer that leaves the timestamp out of the persisted object.
json_dump_without_timestamp(entry) ==
    [kind |-> "json_object", keys |-> {"path", "source_hash", "prompt_hash",
        "backend_id", "tool_version", "summary", "approx_tokens"}, vals |-> entry]

\* json.dump(asdict(entry), f): the object with every field of the dataclass.
json_dump(entry) == FileOf("json_object", EntryFields, entry)

\* A write that stopped part-way: a prefix of the JSON text.
partial_dump(entry) == FileOf("bad_json", {}, BlankEntry)

\* open(.., encoding="utf-8") + json.load: the value, or the exception raised.
json_load(content) ==
    CASE content.kind = "unreadable" -> [exc |-> "OSError", obj |-> FALSE, data |-> content]
      [] content.kind = "bad_utf8" -> [exc |-> "UnicodeDecodeError", obj |-> FALSE, data |-> content]
      [] content.kind = "bad_json" -> [exc |-> "JSONDecodeError", obj |-> FALSE, data |-> content]
      [] content.kind = "json_other" -> [exc |-> None, obj |-> FALSE, data |-> content]
      [] OTHER -> [exc |-> None, obj |-> TRUE, data |-> content]

\* CacheEntry(**data): TypeError unless data is a mapping whose keys are
\* fields of the dataclass and cover the fields without default.
construct_entry(loaded) ==
    IF ~loaded.obj THEN [exc |-> "TypeError", entry |-> BlankEntry]
    ELSE IF ~(loaded.data.keys \subseteq EntryFields) THEN [exc |-> "TypeError", entry |-> BlankEntry]
    ELSE IF ~(RequiredFields \subseteq loaded.data.keys) THEN [exc |-> "TypeError", entry |-> BlankEntry]
    ELSE [exc |-> None,
          entry |-> [loaded.data.vals EXCEPT
                        !.approx_tokens =
                            IF "approx_tokens" \in loaded.data.keys THEN @ ELSE 0]]

\* The exceptions _load_entry catches.
LoadCaught == {"JSONDecodeError", "TypeError", "KeyError"}

\* Cache._load_entry: status "none" (None), "entry", or "raise" (propagates exc).
load_entry(fs, path) ==
    LET content == fs[cache_file(path)] IN
    IF content.kind = "absent" THEN [status |-> "none", exc |-> None, entry |-> BlankEntry]
    ELSE
        LET loaded == json_load(content) IN
        IF loaded.exc # None
        THEN IF loaded.exc \in LoadCaught
             THEN [status |-> "none", exc |-> None, entry |-> BlankEntry]
             ELSE [status |-> "raise", exc |-> loaded.exc, entry |-> BlankEntry]
        ELSE
            LET made == construct_entry(loaded) IN
            IF made.exc # None
            THEN IF made.exc \in LoadCaught
                 THEN [status |-> "none", exc |-> None, entry |-> BlankEntry]
                 ELSE [status |-> "raise", exc |-> made.exc, entry |-> BlankEntry]
            ELSE [status |-> "entry", exc |-> None, entry |-> made.entry]

\* ---- _save_entry
\* The step at which a save fails: "none"; "mkstemp", before the temporary
\* file exists (a failing mkdir behaves alike); or inside the try block:
\* "dump", while the temporary file is written (a failing fdopen or close
\* behaves alike), and "replace", the rename.
FailPoints == {"none", "mkstemp", "dump", "replace"}

InTry == {"dump", "replace"}

\* A save that writes the entry file in place, without a temporary file.
save_entry_in_place(fs, tmps, entry, fail_at, unlink_ok) ==
    IF fail_at = "none"
    THEN [files |-> [fs EXCEPT ![cache_file(entry.path)] = json_dump(entry)],
          tmpfiles |-> tmps, raised |-> FALSE, exc |-> None]
    ELSE IF fail_at = "dump"
    THEN [files |-> [fs EXCEPT ![cache_file(entry.path)] = partial_dump(entry)],
          tmpfiles |-> tmps, raised |-> TRUE, exc |-> "OSError"]
    ELSE [files |-> fs, tmpfiles |-> tmps, raised |-> TRUE, exc |-> "OSError"]

\* A save that keeps the entry a path already has.
save_entry_keep_first(fs, tmps, entry, fail_at, unlink_ok) ==
    [files |-> IF fs[cache_file(entry.path)] = Absent /\ fail_at = "none"
               THEN [fs EXCEPT ![cache_file(entry.path)] = json_dump(entry)]
               ELSE fs,
     tmpfiles |-> tmps, raised |-> fail_at # "none",
     exc |-> IF fail_at = "none" THEN None ELSE "OSError"]

\* Cache._save_entry: the directory after the call and whether it raised.
\* unlink_ok: whether os.unlink(temp_path) in the except block succeeds
\* (its OSError is swallowed).
save_entry(fs, tmps, entry, fail_at, unlink_ok) ==
    IF fail_at = "none"
    THEN [files |-> [fs EXCEPT ![cache_file(entry.path)] = json_dump(entry)],
          tmpfiles |-> tmps, raised |-> FALSE, exc |-> None]
    ELSE IF fail_at \in InTry
    THEN [files |-> fs,
          tmpfiles |-> IF unlink_ok THEN tmps ELSE tmps + 1,
          raised |-> TRUE, exc |-> "OSError"]
    ELSE [files |-> fs, tmpfiles |-> tmps, raised |-> TRUE, exc |-> "OSError"]

\* ---- results
Outcome(op, path, key, summary) ==
    [op |-> op, path |-> path, key |-> key, summary |-> summary,
     cache_hit |-> FALSE, is_stale |-> FALSE, staleness_reason |-> None,
     result_summary |-> None, raised |-> FALSE, exc |-> None,
     fail_at |-> "none", unlink_ok |-> TRUE, count |-> 0, failing |-> {}]

NoKey == CacheKey("", "", "", "")

\* Cache.check_status / the lookup part of Cache.get, as a function of the
\* directory: whether it raises, hits, and the reason and entry it reports.
lookup(fs, path, key) ==
    LET e == load_entry(fs, path) IN
    IF e.status = "raise"
    THEN [raised |-> TRUE, exc |-> e.exc, hit |-> FALSE, reason |-> None, entry |-> BlankEntry]
    ELSE IF e.status = "none"
    THEN [raised |-> FALSE, exc |-> None, hit |-> FALSE, reason |-> "not_cached", entry |-> BlankEntry]
    ELSE LET m == matches(e.entry, key) IN
         [raised |-> FALSE, exc |-> None, hit |-> m.ok, reason |-> m.reason,
          entry |-> IF m.ok THEN e.entry ELSE BlankEntry]

\* The CacheStats after a get with lookup result r.
stats_after(st, r) ==
    IF r.raised THEN st
    ELSE IF r.hit
    THEN [st EXCEPT !.hits = @ + 1, !.tokens_saved = @ + r.entry.approx_tokens]
    ELSE [st EXCEPT !.misses = @ + 1]

\* Cache.get
get(path, key) ==
    /\ nops < MaxOps
    /\ LET r == lookup(files, path, key) IN
       /\ stats' = stats_after(stats, r)
       /\ last' = [Outcome("get", path, key, None) EXCEPT
                      !.cache_hit = r.hit,
                      !.is_stale = ~r.hit,
                      !.staleness_reason = r.reason,
                      !.result_summary = IF r.hit THEN r.entry.summary ELSE None,
                      !.raised = r.raised,
                      !.exc = r.exc]
    /\ nops' = nops + 1
    /\ UNCHANGED <<files, tmpfiles>>

\* A check_status that counts the lookup in the statistics, as get does.
check_status_counting(path, key) ==
    /\ nops < MaxOps
    /\ LET r == lookup(files, path, key) IN
       /\ stats' = stats_after(stats, r)
       /\ last' = [Outcome("check_status", path, key, None) EXCEPT
                      !.is_stale = ~r.hit,
                      !.staleness_reason = r.reason,
                      !.raised = r.raised,
                      !.exc = r.exc]
    /\ nops' = nops + 1
    /\ UNCHANGED <<files, tmpfiles>>

\* Cache.check_status
check_status(path, key) ==
    /\ nops < MaxOps
    /\ LET r == lookup(files, path, key) IN
       last' = [Outcome("check_status", path, key, None) EXCEPT
                   !.is_stale = ~r.hit,
                   !.staleness_reason = r.reason,
                   !.raised = r.raised,
                   !.exc = r.exc]
    /\ nops' = nops + 1
    /\ UNCHANGED <<files, tmpfiles, stats>>

\* Cache.put
put(path, key, summary, approx_tokens, fail_at, unlink_ok) ==
    /\ nops < MaxOps
    /\ LET s == save_entry(files, tmpfiles, CacheEntry(path, key, summary, approx_tokens),
                           fail_at, unlink_ok) IN
       /\ files' = s.files
       /\ tmpfiles' = s.tmpfiles
       /\ last' = [Outcome("put", path, key, summary) EXCEPT
                      !.raised = s.raised, !.exc = s.exc,
                      !.fail_at = fail_at, !.unlink_ok = unlink_ok]
    /\ nops' = nops + 1
    /\ UNCHANGED stats

\* Cache.get_or_create
get_or_create(path, key, summary, fail_at, unlink_ok) ==
    /\ nops < MaxOps
    /\ LET r == lookup(files, path, key)
           store == ~r.raised /\ ~r.hit /\ summary # None
           s == IF store
                THEN save_entry(files, tmpfiles,
                                CacheEntry(path, key, summary, str_len(summary) \div 4),
                                fail_at, unlink_ok)
                ELSE [files |-> files, tmpfiles |-> tmpfiles, raised |-> FALSE, exc |-> None]
       IN
       /\ (~store) => (fail_at = "none" /\ unlink_ok)
       /\ stats' = stats_after(stats, r)
       /\ files' = s.files
       /\ tmpfiles' = s.tmpfiles
       /\ last' = [Outcome("get_or_create", path, key, summary) EXCEPT
                      !.cache_hit = r.hit /\ ~s.raised,
                      !.staleness_reason = IF r.raised \/ s.raised THEN None ELSE r.reason,
                      !.result_summary =
                          IF r.raised \/ s.raised THEN None
                          ELSE IF r.hit THEN r.entry.summary
                          ELSE summary,
                      !.raised = r.raised \/ s.raised,
                      !.exc = IF r.raised THEN r.exc ELSE s.exc,
                      !.fail_at = IF store THEN fail_at ELSE "none",
                      !.unlink_ok = unlink_ok]
    /\ nops' = nops + 1

\* Contents that are not a well-formed entry, as another program (or a crash
\* of the disk) can leave them under an entry's name.
Garbage ==
    {FileOf("unreadable", {}, BlankEntry),
     FileOf("bad_utf8", {}, BlankEntry),
     FileOf("bad_json", {}, BlankEntry),
     FileOf("json_other", {}, BlankEntry),
     FileOf("json_object", RequiredFields \ {"summary"}, BlankEntry),
     FileOf("json_object", EntryFields \cup {"extra"}, BlankEntry)}

\* Environment: the content of an entry file is overwritten with garbage.
Corrupt(name, content) ==
    /\ nops < MaxOps
    /\ files' = [files EXCEPT ![name] = content]
    /\ last' = Outcome("corrupt", "", NoKey, None)
    /\ nops' = nops + 1
    /\ UNCHANGED <<tmpfiles, stats>>

\* Cache.__init__: an empty cache directory and zeroed statistics.
CacheIdle ==
    /\ files = [n \in CacheFiles |-> Absent]
    /\ tmpfiles = 0
    /\ stats = [hits |-> 0, misses |-> 0, tokens_saved |-> 0]
    /\ last = Outcome("init", "", NoKey, None)
    /\ nops = 0

\* The summary argument of get_or_create (None: no summary provided) and
\* the steps of its store that fail.
CreateSummaries == {"{'k': 1}", None}

CreateFailPoints == {"none", "replace"}

CacheNext ==
    \/ \E p \in Paths, k \in GetKeys : get(p, k)
    \/ \E p \in Paths, k \in GetKeys : check_status(p, k)
    \/ \E p \in Paths, k \in PutKeys, s \in Summaries, t \in PutTokens,
          f \in FailPoints, u \in BOOLEAN :
            /\ (f \notin InTry) => u
            /\ put(p, k, s, t, f, u)
    \/ \E p \in Paths, k \in PutKeys, s \in CreateSummaries,
          f \in CreateFailPoints, u \in BOOLEAN :
            /\ (f \notin InTry) => u
            /\ get_or_create(p, k, s, f, u)
    \/ \E n \in CacheFiles, c \in Garbage : Corrupt(n, c)

\* ------------------------------------------------- cache.py: manifest diff

\* Paths are sequences of one-character strings. The characters of the
\* model, in code point order: the order Python compares strings by.
CodePoints ==
    <<"!", "*", "-", ".", "/", "0", "1", "2", "?", "C", "E", "J", "N", "O",
      "P", "R", "T", "X", "\\", "_", "a", "b", "c", "d", "e", "g", "h", "i",
      "j", "l", "m", "n", "o", "p", "r", "s", "t", "u", "x", "y", "|">>

ord(c) == CHOOSE i \in DOMAIN CodePoints : CodePoints[i] = c

\* x < y for Python strings, compared from position i on.
RECURSIVE str_lt_from(_, _, _)
str_lt_from(x, y, i) ==
    IF i > Len(y) THEN FALSE
    ELSE IF i > Len(x) THEN TRUE
    ELSE IF x[i] = y[i] THEN str_lt_from(x, y, i + 1)
    ELSE ord(x[i]) < ord(y[i])

str_lt(x, y) == str_lt_from(x, y, 1)

str_le(x, y) == x = y \/ str_lt(x, y)

DiffNames == <<"a", "b", "c", "d">>

\* Paths of the snapshots.
DiffPaths == {<<DiffNames[i]>> : i \in 1..NumDiffPaths}

\* Content hashes (hash_file): a digest is represented by a sequence of
\* strings that determines the content digested.
DiffHashes == {<<"h1">>, <<"h2">>}

IgnoreModes == {"git", "best_effort"}

\* sorted(S) for a set of paths.
RECURSIVE sorted(_)
sorted(S) ==
    IF S = {} THEN <<>>
    ELSE LET x == CHOOSE x \in S : TRUE
             rest == sorted(S \ {x})
             k == Cardinality({i \in DOMAIN rest : str_lt(rest[i], x)})
         IN SubSeq(rest, 1, k) \o <<x>> \o SubSeq(rest, k + 1, Len(rest))

Range(seq) == {seq[i] : i \in DOMAIN seq}

\* The orders in which iterating a set may yield its elements.
IterationOrders(S) ==
    {o \in [1..Cardinality(S) -> S] : \A i, j \in 1..Cardinality(S) : o[i] = o[j] => i = j}

\* A list of {path, source_hash} records.
FileRecord(p, h) == [path |-> p, source_hash |-> h]

\* sorted(files, key=path) of the records of a path -> hash map.
file_list(m) ==
    LET paths == sorted(DOMAIN m) IN
    [i \in DOMAIN paths |-> FileRecord(paths[i], m[paths[i]])]

\* The path -> hash maps over subsets of the paths.
FileMaps == UNION {[S -> DiffHashes] : S \in SUBSET DiffPaths}

\* BuildManifest.file_hashes and the dict comprehension over cur_files:
\* {f["path"]: f["source_hash"] for f in files}; a later record wins.
file_hashes(fl) ==
    [p \in {fl[i].path : i \in DOMAIN fl} |->
        LET at == {i \in DOMAIN fl : fl[i].path = p}
            i == CHOOSE i \in at : \A j \in at : j <= i
        IN fl[i].source_hash]

\* _compute_scan_hash: the digest of the sorted (ignore_mode, path,
\* source_hash) items; distinct item lists have distinct digests, so the
\* digest is represented by the item list.
scan_items(m, mode) ==
    LET paths == sorted(DOMAIN m) IN
    [i \in DOMAIN paths |-> <<mode, paths[i], m[paths[i]]>>]

compute_scan_hash(fl, mode) == scan_items(file_hashes(fl), mode)

MANIFEST_SCHEMA_VERSION == 1

\* BuildManifest
BuildManifest(tool_version, ignore_mode, scan_hash, fl) ==
    [exists |-> TRUE,
     schema_version |-> MANIFEST_SCHEMA_VERSION,
     tool_version |-> tool_version,
     ignore_mode |-> ignore_mode,
     scan_hash |-> scan_hash,
     files |-> fl]

\* No manifest: load_manifest returned None.
NoManifest ==
    [exists |-> FALSE, schema_version |-> MANIFEST_SCHEMA_VERSION, tool_version |-> "",
     ignore_mode |-> "", scan_hash |-> <<>>, files |-> <<>>]

\* ChangeSet
ChangeSet(prev_scan_hash, cur_scan_hash, ignore_mode, added, modified, deleted, renamed) ==
    [done |-> TRUE,
     prev_scan_hash |-> prev_scan_hash,
     cur_scan_hash |-> cur_scan_hash,
     ignore_mode |-> ignore_mode,
     added |-> added,
     modified |-> modified,
     deleted |-> deleted,
     renamed |-> renamed]

NoChangeSet ==
    [done |-> FALSE, prev_scan_hash |-> <<>>, cur_scan_hash |-> <<>>, ignore_mode |-> "",
     added |-> <<>>, modified |-> <<>>, deleted |-> <<>>, renamed |-> <<>>]

\* ChangeSet.is_empty
is_empty(cs) ==
    ~(cs.added # <<>> \/ cs.modified # <<>> \/ cs.deleted # <<>> \/ cs.renamed # <<>>)

\* A modified list that also holds the common paths whose hash is unchanged.
modified_paths_all_common(prev_hashes, cur_hashes) ==
    sorted(DOMAIN prev_hashes \cap DOMAIN cur_hashes)

\* modified = sorted([p for p in common_paths if prev_hashes[p] != cur_hashes[p]])
modified_paths(prev_hashes, cur_hashes) ==
    sorted({p \in DOMAIN prev_hashes \cap DOMAIN cur_hashes : prev_hashes[p] # cur_hashes[p]})

\* deleted_by_hash = {prev_hashes[p]: p for p in deleted_paths}, with the set
\* iterated in the given order; the path iterated last wins.
deleted_by_hash(prev_hashes, order) ==
    [h \in {prev_hashes[order[i]] : i \in DOMAIN order} |->
        LET i == CHOOSE i \in DOMAIN order :
                    /\ prev_hashes[order[i]] = h
                    /\ \A j \in DOMAIN order : prev_hashes[order[j]] = h => j <= i
        IN order[i]]

\* A rename loop that does not check whether the old path is already matched.
RECURSIVE rename_loop_unchecked(_, _, _, _, _)
rename_loop_unchecked(added_sorted, i, cur_hashes, by_hash, acc) ==
    IF i > Len(added_sorted) THEN acc
    ELSE
        LET added_path == added_sorted[i]
            added_hash == cur_hashes[added_path]
        IN
        IF added_hash \in DOMAIN by_hash
        THEN rename_loop_unchecked(added_sorted, i + 1, cur_hashes, by_hash,
                [renamed |-> Append(acc.renamed, <<by_hash[added_hash], added_path>>),
                 matched_added |-> acc.matched_added \cup {added_path},
                 matched_deleted |-> acc.matched_deleted \cup {by_hash[added_hash]}])
        ELSE rename_loop_unchecked(added_sorted, i + 1, cur_hashes, by_hash, acc)

\* A rename loop that starts at the second added path.
rename_loop_off_by_one(added_sorted, i, cur_hashes, by_hash, acc) ==
    rename_loop_unchecked(added_sorted, i + 1, cur_hashes, by_hash, acc)

\* The loop "for added_path in sorted(added_paths)" from its i-th iteration
\* on; acc holds renamed, matched_added and matched_deleted.
RECURSIVE rename_loop(_, _, _, _, _)
rename_loop(added_sorted, i, cur_hashes, by_hash, acc) ==
    IF i > Len(added_sorted) THEN acc
    ELSE
        LET added_path == added_sorted[i]
            added_hash == cur_hashes[added_path]
        IN
        IF added_hash \in DOMAIN by_hash /\ by_hash[added_hash] \notin acc.matched_deleted
        THEN rename_loop(added_sorted, i + 1, cur_hashes, by_hash,
                [renamed |-> Append(acc.renamed, <<by_hash[added_hash], added_path>>),
                 matched_added |-> acc.matched_added \cup {added_path},
                 matched_deleted |-> acc.matched_deleted \cup {by_hash[added_hash]}])
        ELSE rename_loop(added_sorted, i + 1, cur_hashes, by_hash, acc)

\* A final added list from which the renamed paths are not removed.
remaining_with_matched(paths, matched) == sorted(paths)

\* A final list in descending order.
remaining_descending(paths, matched) ==
    LET asc == sorted(paths \ matched)
    IN [i \in 1..Len(asc) |-> asc[Len(asc) + 1 - i]]

\* sorted(added_paths - matched_added), sorted(deleted_paths - matched_deleted)
remaining(paths, matched) == sorted(paths \ matched)

\* compute_changes; order is the order in which the set deleted_paths is
\* iterated when deleted_by_hash is built.
compute_changes(prev_manifest, cur, cur_scan_hash, cur_ignore_mode, order) ==
    LET prev_hashes == file_hashes(prev_manifest.files)
        cur_hashes == file_hashes(cur)
        prev_paths == DOMAIN prev_hashes
        cur_paths == DOMAIN cur_hashes
        added_paths == cur_paths \ prev_paths
        deleted_paths == prev_paths \ cur_paths
        by_hash == deleted_by_hash(prev_hashes, order)
        acc == rename_loop(sorted(added_paths), 1, cur_hashes, by_hash,
                   [renamed |-> <<>>, matched_added |-> {}, matched_deleted |-> {}])
    IN ChangeSet(prev_manifest.scan_hash, cur_scan_hash, cur_ignore_mode,
                 remaining(added_paths, acc.matched_added),
                 modified_paths(prev_hashes, cur_hashes),
                 remaining(deleted_paths, acc.matched_deleted),
                 acc.renamed)

\* Two evaluations of compute_changes on the same arguments (two runs of the
\* program: the iteration order of a set of str varies with the hash seed).
Runs == {1, 2}

\* One evaluation of compute_changes on (prev, cur_files).
ComputeChanges(run, order) ==
    /\ order \in IterationOrders(DOMAIN file_hashes(prev.files) \ DOMAIN file_hashes(cur_files))
    /\ changes' = [changes EXCEPT ![run] =
            compute_changes(prev, cur_files,
                            compute_scan_hash(cur_files, prev.ignore_mode),
                            prev.ignore_mode, order)]
    /\ UNCHANGED <<prev, cur_files>>

DiffIdle ==
    /\ prev = NoManifest
    /\ cur_files = <<>>
    /\ changes = [r \in Runs |-> NoChangeSet]

DiffNext ==
    /\ \E run \in Runs :
        \E order \in IterationOrders(DOMAIN file_hashes(prev.files) \ DOMAIN file_hashes(cur_files)) :
            ComputeChanges(run, order)
    /\ UNCHANGED <<cache_vars, ignore_vars, build_vars, scan_vars, proc_vars>>

\* ------------------------------------------------------------------ scanner.py

\* Paths and patterns are sequences of one-character strings.
Slash == "/"

StartsWith(str, prefix) ==
    /\ Len(prefix) <= Len(str)
    /\ \A i \in 1..Len(prefix) : str[i] = prefix[i]

EndsWith(str, c) == Len(str) > 0 /\ str[Len(str)] = c

\* str[i:] (0-based i = from - 1)
From(str, from) == SubSeq(str, from, Len(str))

\* path.replace("\\", "/")
normalize(path) == [i \in 1..Len(path) |-> IF path[i] = "\\" THEN Slash ELSE path[i]]

\* str.split("/")
RECURSIVE split(_)
split(str) ==
    LET slashes == {i \in 1..Len(str) : str[i] = Slash} IN
    IF slashes = {} THEN <<str>>
    ELSE LET k == CHOOSE i \in slashes : \A j \in slashes : i <= j
         IN <<SubSeq(str, 1, k - 1)>> \o split(From(str, k + 1))

\* "/".join(parts)
RECURSIVE join(_)
join(parts) ==
    IF Len(parts) = 0 THEN <<>>
    ELSE IF Len(parts) = 1 THEN parts[1]
    ELSE parts[1] \o <<Slash>> \o join(Tail(parts))

\* The pieces of the regular expression _pattern_to_regex builds:
\* "lit" (an escaped character), "star" ([^/]*), "any" (.*),
\* "dirs" ((?:.*/)?) and "one" ([^/]).
Piece(t, c) == [t |-> t, c |-> c]

\* _pattern_to_regex, from position i of the pattern on. The patterns of
\* the model hold no "[" or "]".
RECURSIVE pattern_to_regex_from(_, _)
pattern_to_regex_from(pattern, i) ==
    IF i > Len(pattern) THEN <<>>
    ELSE
        LET c == pattern[i] IN
        IF c = "*"
        THEN IF i + 1 <= Len(pattern) /\ pattern[i + 1] = "*"
             THEN IF i + 2 <= Len(pattern) /\ pattern[i + 2] = Slash
                  THEN <<Piece("dirs", "")>> \o pattern_to_regex_from(pattern, i + 3)
                  ELSE <<Piece("any", "")>> \o pattern_to_regex_from(pattern, i + 2)
             ELSE <<Piece("star", "")>> \o pattern_to_regex_from(pattern, i + 1)
        ELSE IF c = "?"
        THEN <<Piece("one", "")>> \o pattern_to_regex_from(pattern, i + 1)
        ELSE IF c = "\\"
        THEN IF i + 1 <= Len(pattern)
             THEN <<Piece("lit", pattern[i + 1])>> \o pattern_to_regex_from(pattern, i + 2)
             ELSE <<Piece("lit", "\\")>>
        ELSE <<Piece("lit", c)>> \o pattern_to_regex_from(pattern, i + 1)

\* _pattern_to_regex
pattern_to_regex(pattern) == pattern_to_regex_from(pattern, 1)

\* re.match(regex + "$", str): whether the pieces from the i-th on match
\* str from position j to its end.
RECURSIVE re_match_from(_, _, _, _)
re_match_from(regex, i, str, j) ==
    IF i > Len(regex) THEN j > Len(str)
    ELSE
        LET piece == regex[i] IN
        CASE piece.t = "lit" ->
                j <= Len(str) /\ str[j] = piece.c /\ re_match_from(regex, i + 1, str, j + 1)
          [] piece.t = "one" ->
                j <= Len(str) /\ str[j] # Slash /\ re_match_from(regex, i + 1, str, j + 1)
          [] piece.t = "star" ->
                LET slashes == {m \in j..Len(str) : str[m] = Slash}
                    stop == IF slashes = {} THEN Len(str) + 1
                            ELSE CHOOSE m \in slashes : \A n \in slashes : m <= n
                IN \E k \in j..stop : re_match_from(regex, i + 1, str, k)
          [] piece.t = "any" ->
                \E k \in j..(Len(str) + 1) : re_match_from(regex, i + 1, str, k)
          [] OTHER ->
                \/ re_match_from(regex, i + 1, str, j)
                \/ \E k \in j..Len(str) :
                        str[k] = Slash /\ re_match_from(regex, i + 1, str, k + 1)

re_match(regex, str) == re_match_from(regex, 1, str, 1)

\* _matches_pattern
matches_pattern(raw_path, raw_pattern) ==
    LET path == normalize(raw_path) IN
    IF EndsWith(raw_pattern, Slash)
    THEN LET pattern == SubSeq(raw_pattern, 1, Len(raw_pattern) - 1)
             parts == split(path)
         IN \/ path = pattern
            \/ StartsWith(path, pattern \o <<Slash>>)
            \/ \E i \in DOMAIN parts : parts[i] = pattern
    ELSE
        LET anchored == StartsWith(raw_pattern, <<Slash>>)
            pattern == IF anchored THEN Tail(raw_pattern) ELSE raw_pattern
            regex == pattern_to_regex(pattern)
            parts == split(path)
        IN
        IF anchored THEN re_match(regex, path)
        ELSE \* the full path and the file name, tried first by the code,
             \* are the first and the last of the suffixes
             \E i \in DOMAIN parts :
                re_match(regex, join(SubSeq(parts, i, Len(parts))))

Negated(pattern) == StartsWith(pattern, <<"!">>)

\* A loop that returns at the first pattern that matches.
RECURSIVE should_ignore_first_match(_, _)
should_ignore_first_match(path, patterns) ==
    IF patterns = <<>> THEN FALSE
    ELSE IF Negated(patterns[1]) /\ matches_pattern(path, Tail(patterns[1])) THEN FALSE
    ELSE IF ~Negated(patterns[1]) /\ matches_pattern(path, patterns[1]) THEN TRUE
    ELSE should_ignore_first_match(path, Tail(patterns))

\* The loop of _should_ignore over the patterns from the i-th on, entered
\* with the current value of "ignored".
RECURSIVE should_ignore_from(_, _, _, _)
should_ignore_from(path, patterns, i, ignored) ==
    IF i > Len(patterns) THEN ignored
    ELSE
        LET pattern == patterns[i] IN
        IF Negated(pattern)
        THEN should_ignore_from(path, patterns, i + 1,
                IF matches_pattern(path, Tail(pattern)) THEN FALSE ELSE ignored)
        ELSE should_ignore_from(path, patterns, i + 1,
                IF matches_pattern(path, pattern) THEN TRUE ELSE ignored)

\* _should_ignore
should_ignore(path, patterns) == should_ignore_from(path, patterns, 1, FALSE)

\* The paths tested.
IgnorePaths ==
    {<<"a">>, <<"b">>, <<"d", "/", "a">>, <<"d", "/", "b">>, <<"d", "/", "e", "/", "a">>}

\* The pattern lines of the ignore files.
IgnoreLines ==
    {<<"a">>, <<"!", "a">>, <<"*">>, <<"!", "*">>, <<"d", "/">>, <<"!", "d", "/">>,
     <<"/", "a">>, <<"!", "/", "a">>, <<"*", "*", "/", "a">>, <<"!", "d", "/", "*">>,
     <<"?">>, <<"e", "/", "a">>}

\* _load_ignore_patterns / _parse_ignore_file: one more pattern line is
\* appended to the list, and the path is tested against the list.
AppendPattern(line) ==
    /\ Len(ig_patterns) < MaxPatterns
    /\ ig_patterns' = Append(ig_patterns, line)
    /\ ig_ignored' = should_ignore(ig_path, ig_patterns')
    /\ UNCHANGED <<ig_path, m_path, m_pattern, m_result>>

\* The characters of the patterns and the paths given to _matches_pattern.
PatternChars == {"a", "*", "?", Slash}

MatchPatterns == UNION {[1..n -> PatternChars] : n \in 1..MaxPatternLen}

MatchPaths ==
    {<<"a">>, <<"b">>, <<"a", "a">>, <<"a", "/", "a">>, <<"a", "/", "b">>,
     <<"a", "a", "/", "a">>, <<"b", "/", "a", "/", "a">>}

\* One call of _matches_pattern.
MatchPattern ==
    /\ m_result = "unset"
    /\ m_result' = IF matches_pattern(m_path, m_pattern) THEN "match" ELSE "no_match"
    /\ UNCHANGED <<m_path, m_pattern, ig_path, ig_patterns, ig_ignored>>

MatchIdle ==
    /\ m_path = <<>>
    /\ m_pattern = <<>>
    /\ m_result = "unset"

MatchNext == MatchPattern /\ UNCHANGED <<cache_vars, diff_vars, build_vars, scan_vars, proc_vars>>

IgnoreIdle ==
    /\ ig_path = <<>>
    /\ ig_patterns = <<>>
    /\ ig_ignored = FALSE
    /\ MatchIdle

IgnoreNext ==
    /\ \E line \in IgnoreLines : AppendPattern(line)
    /\ UNCHANGED <<cache_vars, diff_vars, build_vars, scan_vars, proc_vars>>

\* ------------------------------------------------ cli.py: build, --changes

OUTPUT_FILENAME == <<"P", "R", "O", "J", "E", "C", "T", "_", "C", "O", "N", "T", "E", "X", "T", ".", "m", "d">>

CACHE_DIRNAME == <<".", "c", "o", "n", "t", "e", "x", "t", "-", "c", "a", "c", "h", "e">>

MANIFEST_FILENAME == <<"l", "a", "s", "t", "_", "b", "u", "i", "l", "d", ".", "j", "s", "o", "n">>

CONTEXTIGNORE == <<".", "c", "o", "n", "t", "e", "x", "t", "i", "g", "n", "o", "r", "e">>

JSON_SUFFIX == <<".", "j", "s", "o", "n">>

\* cache_dir / MANIFEST_FILENAME, relative to the root
manifest_path == CACHE_DIRNAME \o <<Slash>> \o MANIFEST_FILENAME

\* sha256(path).hexdigest()[:16]: a file name made of the path's characters,
\* distinct for distinct paths of the model.
path_digest(path) ==
    [i \in 1..Len(path) |-> IF path[i] \in {Slash, "."} THEN "_" ELSE path[i]]

\* Cache._cache_file, relative to the root
entry_path(path) == CACHE_DIRNAME \o <<Slash>> \o path_digest(path) \o JSON_SUFFIX

\* The entry file put writes for a path and its source hash (the other key
\* components and the summarizer are fixed).
entry_content(path, source_hash) == <<"entry">> \o path \o <<"|">> \o source_hash

write_file(t, path, content) ==
    [q \in DOMAIN t \cup {path} |-> IF q = path THEN content ELSE t[q]]

remove_file(t, path) == [q \in DOMAIN t \ {path} |-> t[q]]

\* The content of an ignore file holding the pattern lines.
RECURSIVE lines_content(_)
lines_content(lines) ==
    IF lines = <<>> THEN <<>>
    ELSE lines[1] \o <<"|">> \o lines_content(Tail(lines))

\* sorted(list) for a list of paths; equal paths stay next to each other.
RECURSIVE sorted_list(_)
sorted_list(list) ==
    IF list = <<>> THEN <<>>
    ELSE LET x == list[1]
             rest == sorted_list(Tail(list))
             k == Cardinality({i \in DOMAIN rest : str_lt(rest[i], x)})
         IN SubSeq(rest, 1, k) \o <<x>> \o SubSeq(rest, k + 1, Len(rest))

\* The list holding every element of the list `times` times over.
RECURSIVE repeat(_, _)
repeat(list, times) ==
    IF list = <<>> THEN <<>>
    ELSE [i \in 1..times |-> list[1]] \o repeat(Tail(list), times)

\* The index stages of an unmerged path: base, ours, theirs.
UnmergedStages == 3

\* _scan_with_git: the output of
\* git ls-files --cached --others --exclude-standard. The index is listed
\* in path order, one line per entry: a path of a merge in progress has one
\* entry per stage.
git_ls_files(t, excludes, conflicts) ==
    LET listed == sorted({p \in DOMAIN t :
                    ~\E g \in excludes : p = g \/ StartsWith(p, g \o <<Slash>>)})
        lines(p) == IF p \in conflicts THEN repeat(<<p>>, UnmergedStages) ELSE <<p>>
        F[i \in 0..Len(listed)] == IF i = 0 THEN <<>> ELSE F[i - 1] \o lines(listed[i])
    IN F[Len(listed)]

is_hidden(name) == StartsWith(name, <<".">>)

DOT_GIT == <<".", "g", "i", "t">>

GITDIR == <<"gitdir:">>

\* _get_submodule_paths: the path values of .gitmodules
get_submodule_paths(registered) == registered

\* _is_submodule_dir: the directory holds a file .git that starts with "gitdir:"
is_submodule_dir(t, dir) ==
    LET git_path == dir \o <<Slash>> \o DOT_GIT IN
    git_path \in DOMAIN t /\ StartsWith(t[git_path], GITDIR)

\* The walk of _scan_directory from a directory on (os.walk, top down):
\* the directories visited, the file paths tested against the patterns and
\* the files listed. kept is the list assigned to dirnames[:].
RECURSIVE walk(_, _, _, _)
walk(t, dir, patterns, submodules) ==
    LET pre == IF dir = <<>> THEN <<>> ELSE dir \o <<Slash>>
        below == {split(From(p, Len(pre) + 1)) : p \in {q \in DOMAIN t : StartsWith(q, pre)}}
        dirnames == {parts[1] : parts \in {b \in below : Len(b) > 1}}
        filenames == {parts[1] : parts \in {b \in below : Len(b) = 1}}
        kept == {d \in dirnames :
                    /\ ~should_ignore(pre \o d, patterns)
                    /\ ~is_hidden(d)
                    /\ d \notin submodules
                    /\ ~is_submodule_dir(t, pre \o d)}
        tested == {pre \o f : f \in {g \in filenames : ~is_hidden(g)}}
        subs == {walk(t, pre \o d, patterns, submodules) : d \in kept}
    IN [walked |-> {dir} \cup UNION {w.walked : w \in subs},
        tested |-> tested \cup UNION {w.tested : w \in subs},
        files |-> {p \in tested : ~should_ignore(p, patterns)}
                    \cup UNION {w.files : w \in subs}]

\* _scan_directory
scan_directory(t, patterns, submodules) ==
    sorted(walk(t, <<>>, patterns, submodules).files)

FALLBACK_WARNING == "git not found; using best-effort ignore matching"

\* [f for f in files if not _should_ignore(f, patterns)]
RECURSIVE not_ignored(_, _)
not_ignored(list, patterns) ==
    IF list = <<>> THEN <<>>
    ELSE IF should_ignore(list[1], patterns)
    THEN not_ignored(Tail(list), patterns)
    ELSE <<list[1]>> \o not_ignored(Tail(list), patterns)

\* scan, "Determine scan mode": the mode of the scan.
\* How subprocess.run of a git command ends: exit status 0, another exit
\* status, or an exception the callers catch.
GIT_OK == "ok"

GitOutcomes == {GIT_OK, "nonzero", "TimeoutExpired", "FileNotFoundError"}

GitHealthy == [rev_parse |-> GIT_OK, ls_files |-> GIT_OK]

\* _in_git_worktree: the root holds .git, rev-parse --show-toplevel ends
\* with status 0 and names the root (confirmed).
in_git_worktree(confirmed, rev_parse) == confirmed /\ rev_parse = GIT_OK

\* _scan_with_git: the listing of ls-files, [] when the command ends with
\* another status than 0, times out or cannot be started.
scan_with_git(t, excludes, conflicts, ls_files) ==
    IF ls_files = GIT_OK THEN git_ls_files(t, excludes, conflicts) ELSE <<>>

scan_mode(git_available, mock_git_missing, toplevel) ==
    LET on_path == git_available /\ ~mock_git_missing
        in_worktree == on_path /\ toplevel
    IN IF on_path /\ in_worktree THEN "git" ELSE "best_effort"

\* scan of an existing directory: the ScanResult, with the directories
\* os.walk visited and the file paths the walk tested.
scan(t, git_available, mock_git_missing, toplevel, ls_files, excludes, conflicts, patterns, registered) ==
    LET submodules == get_submodule_paths(registered)
        on_path == git_available /\ ~mock_git_missing
        warnings == IF ~on_path THEN <<FALLBACK_WARNING>> ELSE <<>>
    IN
    IF scan_mode(git_available, mock_git_missing, toplevel) = "git"
    THEN [ignore_mode |-> "git",
          files |-> sorted_list(not_ignored(scan_with_git(t, excludes, conflicts, ls_files), patterns)),
          warnings |-> warnings,
          walked |-> {},
          tested |-> {}]
    ELSE LET w == walk(t, <<>>, patterns, submodules) IN
         [ignore_mode |-> "best_effort",
          files |-> sorted(w.files),
          warnings |-> warnings,
          walked |-> w.walked,
          tested |-> w.tested]

\* The loop of cmd_build over the scanned files, and get_summary over the
\* changed files: hash the file, look the entry up, store one on a miss.
RECURSIVE summarize_loop(_, _, _, _)
summarize_loop(paths, i, t, cache_hits) ==
    IF i > Len(paths)
    THEN [tree |-> t, cache_hits |-> cache_hits, summaries |-> <<>>]
    ELSE
        LET path == paths[i] IN
        IF path \notin DOMAIN t THEN summarize_loop(paths, i + 1, t, cache_hits)
        ELSE
            LET source_hash == t[path]
                entry == entry_path(path)
                cache_hit == entry \in DOMAIN t /\ t[entry] = entry_content(path, source_hash)
                t2 == IF cache_hit THEN t
                      ELSE write_file(t, entry, entry_content(path, source_hash))
                rest == summarize_loop(paths, i + 1, t2,
                                       IF cache_hit THEN cache_hits + 1 ELSE cache_hits)
            IN [rest EXCEPT !.summaries = <<FileRecord(path, source_hash)>> \o @]

\* json.dumps of the scan hash items
RECURSIVE dumps(_)
dumps(items) ==
    IF items = <<>> THEN <<>>
    ELSE <<items[1][1]>> \o items[1][2] \o <<"|">> \o items[1][3] \o <<"|">>
            \o dumps(Tail(items))

\* generate: the content names the scan hash and the cache hit rate.
context_content(scan_hash, cache_hits, cache_total) ==
    <<"context">> \o dumps(scan_hash) \o <<ToString(cache_hits), ToString(cache_total)>>

\* json.dump(manifest.to_dict())
manifest_content(manifest) ==
    <<"manifest", manifest.tool_version, manifest.ignore_mode>> \o dumps(manifest.scan_hash)

\* A command and the exit status of its process; an exception no handler
\* catches ends the process with status 1.
Ran(cmd, exit_code) == [cmd |-> cmd, exit_code |-> exit_code]

\* The contents of last_build.json that are no manifest: bytes that are not
\* UTF-8, text that is not JSON, and JSON that is not an object.
BAD_UTF8 == <<"bad_utf8">>

BAD_JSON == <<"bad_json">>

NOT_OBJECT == <<"not_object">>

\* load_manifest: stored is the manifest a well-formed file holds. Only
\* json.JSONDecodeError and KeyError are caught: decoding the file raises
\* UnicodeDecodeError, and from_dict calls data.get on what json.load
\* returned, which raises AttributeError unless it is an object.
load_manifest(t, stored) ==
    IF manifest_path \notin DOMAIN t
    THEN [raised |-> FALSE, exc |-> None, manifest |-> NoManifest]
    ELSE IF t[manifest_path] = BAD_UTF8
    THEN [raised |-> TRUE, exc |-> "UnicodeDecodeError", manifest |-> NoManifest]
    ELSE IF t[manifest_path] = BAD_JSON
    THEN [raised |-> FALSE, exc |-> None, manifest |-> NoManifest]
    ELSE IF t[manifest_path] = NOT_OBJECT
    THEN [raised |-> TRUE, exc |-> "AttributeError", manifest |-> NoManifest]
    ELSE [raised |-> FALSE, exc |-> None, manifest |-> stored]

\* cmd_build up to "Write output": the cache entries and the output file
\* written, and the manifest to save.
build_output(t, sc) ==
    LET r == summarize_loop(sc.files, 1, t, 0)
        scan_hash == compute_scan_hash(r.summaries, sc.ignore_mode)
    IN [tree |-> write_file(r.tree, OUTPUT_FILENAME,
                    context_content(scan_hash, r.cache_hits, Len(r.summaries))),
        manifest |-> BuildManifest("v1", sc.ignore_mode, scan_hash, r.summaries)]

\* save_manifest: the manifest replaces last_build.json
save_manifest(b) ==
    [tree |-> write_file(b.tree, manifest_path, manifest_content(b.manifest)),
     manifest |-> b.manifest]

\* The full build of cmd_build on the scan result: the files written and
\* the manifest saved.
full_build(t, sc) == save_manifest(build_output(t, sc))

\* Where a full build may raise: nowhere; in the first cache.put of the
\* loop; in output_path.write_text; in save_manifest (which removes its
\* temporary file and re-raises).
BuildFailPoints == {"none", "put", "output", "manifest"}

\* The loop of cmd_build stores an entry: a scanned file has no valid one.
has_miss(t, paths) ==
    \E i \in DOMAIN paths :
        /\ paths[i] \in DOMAIN t
        /\ ~(/\ entry_path(paths[i]) \in DOMAIN t
             /\ t[entry_path(paths[i])] = entry_content(paths[i], t[paths[i]]))

\* A build that saves the manifest before anything else, whatever happens
\* afterwards.
build_run_manifest_first(t, stored, sc, fail_at) ==
    [exit_code |-> IF fail_at = "none" THEN 0 ELSE 1,
     tree |-> IF fail_at = "none" THEN full_build(t, sc).tree
              ELSE write_file(t, manifest_path, manifest_content(full_build(t, sc).manifest)),
     manifest |-> full_build(t, sc).manifest]

\* A full build that stops at fail_at: the exit status, the files and the
\* manifest afterwards. The files before the first miss are cache hits and
\* write nothing.
build_run(t, stored, sc, fail_at) ==
    IF fail_at = "put"
    THEN [exit_code |-> 1, tree |-> t, manifest |-> stored]
    ELSE IF fail_at = "output"
    THEN [exit_code |-> 1, tree |-> summarize_loop(sc.files, 1, t, 0).tree, manifest |-> stored]
    ELSE IF fail_at = "manifest"
    THEN [exit_code |-> 1, tree |-> build_output(t, sc).tree, manifest |-> stored]
    ELSE [exit_code |-> 0, tree |-> full_build(t, sc).tree, manifest |-> full_build(t, sc).manifest]

\* cmd_build without --changes
cmd_build(dry_run, fail_at) ==
    /\ steps < MaxSteps
    /\ steps' = steps + 1
    /\ dry_run => fail_at = "none"
    /\ LET sc == scan(tree, git_on_path, FALSE, in_git_worktree(git_mode, git_runs.rev_parse), git_runs.ls_files,
                    gitignore, unmerged, ig_patterns, gitmodules) IN
       IF dry_run
       THEN /\ ran' = Ran("dry_run", 0)
            /\ UNCHANGED <<tree, prev>>
       ELSE
            LET b == build_run(tree, prev, sc, fail_at)
            IN /\ fail_at = "put" => has_miss(tree, sc.files)
               /\ tree' = b.tree
               /\ prev' = b.manifest
               /\ ran' = Ran("build", b.exit_code)
    /\ UNCHANGED <<cur_files, changes, git_mode, gitignore, cache_vars, ignore_vars, scan_vars, proc_vars>>

\* The paths of the manifest that the current scan does not list.
DeletedPaths ==
    DOMAIN file_hashes(prev.files)
        \ Range(scan(tree, git_on_path, FALSE, in_git_worktree(git_mode, git_runs.rev_parse), git_runs.ls_files,
                    gitignore, unmerged, ig_patterns, gitmodules).files)

\* Hash current files: the {path, source_hash} records of the scanned files.
hash_current(t, paths) == [i \in DOMAIN paths |-> FileRecord(paths[i], t[paths[i]])]

\* The new paths of the renamed pairs.
new_paths(renamed) == [i \in DOMAIN renamed |-> renamed[i][2]]

\* The output of the changes: nothing to do for an empty ChangeSet and for
\* --changes list; otherwise get_summary runs over the modified, the added
\* and the renamed files.
changes_output(t, cur, cs, changes_mode) ==
    [exit_code |-> 0, computed |-> TRUE, cur |-> cur, cs |-> cs,
     tree |-> IF is_empty(cs) \/ changes_mode = "list" THEN t
              ELSE summarize_loop(cs.modified \o cs.added \o new_paths(cs.renamed), 1, t, 0).tree]

\* Compute scan_hash, compute changes.
changes_report(t, cur, manifest, ignore_mode, changes_mode, order) ==
    changes_output(t, cur,
                   compute_changes(manifest, cur, compute_scan_hash(cur, ignore_mode),
                                   ignore_mode, order),
                   changes_mode)

\* A comparison of the ignore modes that never finds a mismatch.
ignore_mode_mismatch_never(manifest, sc) == FALSE

\* Check ignore_mode mismatch
ignore_mode_mismatch(manifest, sc) == manifest.ignore_mode # sc.ignore_mode

\* cmd_build_changes once the manifest is loaded: what the run returns,
\* whether it computed a ChangeSet, and the files afterwards.
changes_run(t, manifest, sc, changes_mode, order) ==
    IF ignore_mode_mismatch(manifest, sc)
    THEN [exit_code |-> 2, computed |-> FALSE, cur |-> <<>>, cs |-> NoChangeSet, tree |-> t]
    ELSE changes_report(t, hash_current(t, sc.files), manifest, sc.ignore_mode,
                        changes_mode, order)

\* cmd_build_changes
cmd_build_changes(changes_mode, order) ==
    /\ steps < MaxSteps
    /\ steps' = steps + 1
    /\ LET lm == load_manifest(tree, prev) IN
       IF lm.raised
       THEN /\ ran' = Ran("changes", 1)
            /\ UNCHANGED <<tree, cur_files, changes>>
       ELSE IF ~lm.manifest.exists
       THEN /\ ran' = Ran("changes", 2)
            /\ UNCHANGED <<tree, cur_files, changes>>
       ELSE
            LET out == changes_run(tree, lm.manifest,
                                   scan(tree, git_on_path, FALSE,
                                        in_git_worktree(git_mode, git_runs.rev_parse),
                                        git_runs.ls_files, gitignore,
                                        unmerged, ig_patterns, gitmodules),
                                   changes_mode, order)
            IN /\ ran' = Ran("changes", out.exit_code)
               /\ tree' = out.tree
               /\ cur_files' = IF out.computed THEN out.cur ELSE cur_files
               /\ changes' = IF out.computed THEN [changes EXCEPT ![1] = out.cs] ELSE changes
    /\ UNCHANGED <<prev, git_mode, gitignore, cache_vars, ignore_vars, scan_vars, proc_vars>>

\* --changes list | summaries | both; "both" runs the cache operations that
\* "summaries" runs.
ChangesModes == {"list", "summaries"}

\* The user's files.
UserPaths == {<<"a", ".", "p", "y">>, <<"d", "/", "b", ".", "m", "d">>}

\* The user writes or deletes a file.
Edit(path, content) ==
    /\ steps < MaxSteps
    /\ steps' = steps + 1
    /\ tree' = IF content = <<>> THEN remove_file(tree, path)
               ELSE write_file(tree, path, content)
    /\ tree' # tree
    /\ ran' = Ran("edit", 0)
    /\ UNCHANGED <<prev, cur_files, changes, git_mode, gitignore, cache_vars, ignore_vars, scan_vars, proc_vars>>

\* The project's .contextignore.
ContextIgnores ==
    {<<>>,
     <<(<<"*", ".", "m", "d">>)>>,
     <<(<<"*", ".", "m", "d">>), (<<"!">> \o OUTPUT_FILENAME)>>,
     <<(<<"d", "/">>)>>}

\* What git's excludes hide: nothing, or what the tool writes.
GitIgnores == {{}, {CACHE_DIRNAME, OUTPUT_FILENAME}}

\* No direct call of scan yet; git is installed, no merge is in progress
\* and no submodule is registered.
NoScan == [ignore_mode |-> "unset", files |-> <<>>, warnings |-> <<>>,
           walked |-> {}, tested |-> {}]

\* _compute_scan_hash not called yet.
NoScanHash == [mode \in IgnoreModes |-> [done |-> FALSE, input |-> <<>>]]

ScanIdle ==
    /\ git_on_path = TRUE
    /\ unmerged = {}
    /\ gitmodules = {}
    /\ git_runs = GitHealthy
    /\ scanned = NoScan
    /\ hash_inputs = NoScanHash

BuildIdle ==
    /\ tree = <<>>
    /\ git_mode = FALSE
    /\ gitignore = {}
    /\ ran = Ran("none", 0)
    /\ steps = 0
    /\ ScanIdle

BuildNext ==
    \/ \E dry_run \in BOOLEAN, fail_at \in BuildFailPoints : cmd_build(dry_run, fail_at)
    \/ \E changes_mode \in ChangesModes, order \in IterationOrders(DeletedPaths) :
            cmd_build_changes(changes_mode, order)
    \/ \E path \in UserPaths, content \in DiffHashes \cup {<<>>} : Edit(path, content)

\* ------------------------------------ cli.py: build --changes on a built root

\* git init in the root, or the removal of its .git: the root becomes, or
\* stops being, a repository top level.
SetRepository ==
    /\ steps < MaxSteps
    /\ steps' = steps + 1
    /\ git_mode' = ~git_mode
    /\ gitignore' = {}
    /\ ran' = Ran("git", 0)
    /\ UNCHANGED <<tree, prev, cur_files, changes, cache_vars, ignore_vars, scan_vars, proc_vars>>

MalformedManifests == {BAD_UTF8, BAD_JSON, NOT_OBJECT}

\* Something other than the tool overwrites last_build.json.
DamageManifest(content) ==
    /\ steps < MaxSteps
    /\ steps' = steps + 1
    /\ tree' = write_file(tree, manifest_path, content)
    /\ prev' = NoManifest
    /\ ran' = Ran("damage", 0)
    /\ UNCHANGED <<cur_files, changes, git_mode, gitignore, cache_vars, ignore_vars, scan_vars, proc_vars>>

\* cmd_clear_cache: shutil.rmtree(cache_dir)
cmd_clear_cache ==
    /\ steps < MaxSteps
    /\ steps' = steps + 1
    /\ tree' = [q \in {p \in DOMAIN tree : ~StartsWith(p, CACHE_DIRNAME \o <<Slash>>)} |-> tree[q]]
    /\ prev' = NoManifest
    /\ ran' = Ran("clear-cache", 0)
    /\ UNCHANGED <<cur_files, changes, git_mode, gitignore, cache_vars, ignore_vars, scan_vars, proc_vars>>

ChangesNext ==
    \/ \E changes_mode \in ChangesModes, order \in IterationOrders(DeletedPaths) :
            cmd_build_changes(changes_mode, order)
    \/ SetRepository
    \/ \E content \in MalformedManifests : DamageManifest(content)
    \/ cmd_clear_cache

\* --------------------------------------------------------- scanner.py: scan

\* The files of the roots scanned: a file at the top, a file in a
\* directory, a file in a hidden directory, files in the directories s and
\* l/s, and the pointer file of a sub-repository in s.
ScanPaths ==
    {<<"a", ".", "p", "y">>,
     <<"d", "/", "b", ".", "m", "d">>,
     <<".", "h", "/", "x">>,
     <<"s", "/", "c">>,
     <<"l", "/", "s", "/", "c">>}

POINTER_FILE == <<"s", "/">> \o DOT_GIT

\* The pattern lists of .contextignore in the roots scanned.
ScanIgnores == {<<>>, <<(<<"d", "/">>)>>, <<(<<"*", ".", "m", "d">>)>>}

\* The registrations of .gitmodules in the roots scanned.
Registrations == {{}, {<<"s">>}, {<<"l", "/", "s">>}}

\* The ways the git commands of one scan end: both with status 0, or one
\* of them fails (ls-files runs only after rev-parse succeeded).
GitRuns ==
    {[rev_parse |-> r, ls_files |-> GIT_OK] : r \in GitOutcomes}
    \cup {[rev_parse |-> GIT_OK, ls_files |-> l] : l \in GitOutcomes}

\* One direct call of scan on the root.
Scan(mock_git_missing) ==
    /\ scanned = NoScan
    /\ scanned' = scan(tree, git_on_path, mock_git_missing,
                       in_git_worktree(git_mode, git_runs.rev_parse), git_runs.ls_files,
                       gitignore, unmerged, ig_patterns, gitmodules)
    /\ UNCHANGED <<git_on_path, unmerged, gitmodules, git_runs, hash_inputs>>

ScanNext ==
    /\ \E mock_git_missing \in BOOLEAN : Scan(mock_git_missing)
    /\ UNCHANGED <<cache_vars, diff_vars, ignore_vars, build_vars, proc_vars>>

\* ----------------------------------------------------- cache.py: clear

\* What cache_dir.glob("*.json") yields besides the entry files: the
\* manifest last_build.json and the leftover .tmp_*.json files.
MANIFEST_NAME == "last_build"

TMP_NAME == ".tmp_"

\* The sets of names whose unlink raises OSError during one clear.
UnlinkFailures == {{}} \cup {{n} : n \in CacheFiles \cup {MANIFEST_NAME, TMP_NAME}}

\* Cache.clear: every *.json file of the directory is unlinked, the count
\* goes up for each unlink that does not raise, an OSError is passed over.
clear(failing) ==
    /\ nops < MaxOps
    /\ LET entries == {n \in CacheFiles : files[n] # Absent /\ n \notin failing}
           manifests == IF prev.exists /\ MANIFEST_NAME \notin failing THEN 1 ELSE 0
           temporaries == IF TMP_NAME \in failing THEN 0 ELSE tmpfiles
       IN
       /\ files' = [n \in CacheFiles |-> IF n \in entries THEN Absent ELSE files[n]]
       /\ prev' = IF manifests = 1 THEN NoManifest ELSE prev
       /\ tmpfiles' = tmpfiles - temporaries
       /\ last' = [Outcome("clear", "", NoKey, None) EXCEPT
                      !.count = Cardinality(entries) + manifests + temporaries,
                      !.failing = failing]
    /\ nops' = nops + 1
    /\ UNCHANGED stats

\* The keys looked up in a populated directory: the stored one, one that
\* differs from it in one component and one that differs in all.
StatusKeys ==
    {CacheKey("s1", "p1", "b1", "v1"), CacheKey("s1", "p1", "b2", "v1"),
     CacheKey("s2", "p2", "b2", "v2")}

\* What a populated directory holds under an entry's name: nothing, the
\* entry of a path of that name, or garbage.
StoredContents(name) ==
    {Absent}
    \cup {json_dump(CacheEntry(p, CacheKey("s1", "p1", "b1", "v1"), "{'k': 1}", 2)) :
            p \in {q \in Paths : cache_file(q) = name}}
    \cup {FileOf("bad_utf8", {}, BlankEntry), FileOf("bad_json", {}, BlankEntry)}

\* The operations on a populated directory.
StoredNext ==
    \/ /\ \E p \in Paths, k \in StatusKeys : get(p, k)
       /\ UNCHANGED <<diff_vars, ignore_vars, build_vars, scan_vars, proc_vars>>
    \/ /\ \E p \in Paths, k \in StatusKeys : check_status(p, k)
       /\ UNCHANGED <<diff_vars, ignore_vars, build_vars, scan_vars, proc_vars>>
    \/ /\ \E p \in Paths, k \in StatusKeys, f \in CreateFailPoints : put(p, k, "{}", 0, f, TRUE)
       /\ UNCHANGED <<diff_vars, ignore_vars, build_vars, scan_vars, proc_vars>>
    \/ /\ \E failing \in UnlinkFailures : clear(failing)
       /\ UNCHANGED <<cur_files, changes, ignore_vars, build_vars, scan_vars, proc_vars>>

\* ------------------------------------------- generator.py: scan hash

\* One call of _compute_scan_hash on the file summaries, under an ignore mode.
ComputeScanHash(mode) ==
    /\ ~hash_inputs[mode].done
    /\ hash_inputs' = [hash_inputs EXCEPT
                          ![mode] = [done |-> TRUE, input |-> compute_scan_hash(cur_files, mode)]]
    /\ UNCHANGED <<git_on_path, unmerged, gitmodules, git_runs, scanned>>

HashNext ==
    /\ \E mode \in IgnoreModes : ComputeScanHash(mode)
    /\ UNCHANGED <<cache_vars, diff_vars, ignore_vars, build_vars, proc_vars>>

\* ------------------------------ cache.py: put and get in several processes
\* Two processes put the same path while a third looks it up. Each writer
\* runs _save_entry step by step: mkstemp, the write of json.dump in two
\* parts, os.replace; an exception inside the try block unlinks the
\* temporary file. The reader runs _load_entry: exists(), then open and
\* json.load.
Writers == {"w1", "w2"}

READER == "r"

SHARED_PATH == "a.py"

\* The complete entry the path may hold before the writers start.
PreviousEntry == CacheEntry(SHARED_PATH, CacheKey("s1", "p1", "b1", "v1"), "{}", 0)

\* The entry each writer puts.
WriterEntry(w) ==
    IF w = "w1"
    THEN CacheEntry(SHARED_PATH, CacheKey("s2", "p1", "b1", "v1"), "{'k': 1}", 2)
    ELSE CacheEntry(SHARED_PATH, CacheKey("s2", "p2", "b2", "v2"), "{}", 0)

\* The keys the reader asks for.
ReaderKeys ==
    {CacheKey("s1", "p1", "b1", "v1"), CacheKey("s2", "p1", "b1", "v1"),
     CacheKey("s2", "p2", "b2", "v2")}

\* tempfile.mkstemp: a new, empty file under a name no other process has.
mkstemp(tm, w) == [tm EXCEPT ![w] = FileOf("bad_json", {}, BlankEntry)]

\* A writer that writes the JSON text under the final name.
write_in_place(fs, tm, w, name, content) ==
    [files |-> [fs EXCEPT ![name] = content], temps |-> tm]

\* The writes of json.dump go through the descriptor of the temporary file.
write(fs, tm, w, name, content) ==
    [files |-> fs, temps |-> [tm EXCEPT ![w] = content]]

\* os.replace(temp_path, cache_file): one atomic rename.
replace(fs, tm, w, name) ==
    [files |-> [fs EXCEPT ![name] = tm[w]], temps |-> [tm EXCEPT ![w] = Absent]]

\* _save_entry: mkstemp
Mkstemp(w) ==
    /\ pc[w] = "idle"
    /\ pc' = [pc EXCEPT ![w] = "opened"]
    /\ temps' = mkstemp(temps, w)
    /\ tmpfiles' = tmpfiles + 1
    /\ UNCHANGED <<files, stats, last, nops, handle>>

\* _save_entry: json.dump has written the first part of the text
WriteStart(w) ==
    /\ pc[w] = "opened"
    /\ pc' = [pc EXCEPT ![w] = "writing"]
    /\ LET d == write(files, temps, w, cache_file(SHARED_PATH), partial_dump(WriterEntry(w)))
       IN files' = d.files /\ temps' = d.temps
    /\ UNCHANGED <<tmpfiles, stats, last, nops, handle>>

\* _save_entry: json.dump has written the rest and the file is closed
WriteEnd(w) ==
    /\ pc[w] = "writing"
    /\ pc' = [pc EXCEPT ![w] = "written"]
    /\ LET d == write(files, temps, w, cache_file(SHARED_PATH), json_dump(WriterEntry(w)))
       IN files' = d.files /\ temps' = d.temps
    /\ UNCHANGED <<tmpfiles, stats, last, nops, handle>>

\* _save_entry: os.replace
Replace(w) ==
    /\ pc[w] = "written"
    /\ pc' = [pc EXCEPT ![w] = "done"]
    /\ LET d == replace(files, temps, w, cache_file(SHARED_PATH))
       IN files' = d.files /\ temps' = d.temps
    /\ tmpfiles' = tmpfiles - 1
    /\ UNCHANGED <<stats, last, nops, handle>>

\* _save_entry: an exception inside the try block; the temporary file is
\* unlinked and the exception raised again.
SaveFails(w) ==
    /\ pc[w] \in {"opened", "writing", "written"}
    /\ pc' = [pc EXCEPT ![w] = "raised"]
    /\ temps' = [temps EXCEPT ![w] = Absent]
    /\ tmpfiles' = tmpfiles - 1
    /\ UNCHANGED <<files, stats, last, nops, handle>>

\* What get or check_status of the reader reports for lookup result r.
reader_outcome(op, key, r) ==
    [Outcome(op, SHARED_PATH, key, None) EXCEPT
        !.cache_hit = op = "get" /\ r.hit,
        !.is_stale = ~r.hit,
        !.staleness_reason = r.reason,
        !.result_summary = IF op = "get" /\ r.hit THEN r.entry.summary ELSE None,
        !.raised = r.raised,
        !.exc = r.exc]

\* _load_entry: cache_file.exists(); None is returned when it does not.
Exists(op, key) ==
    /\ pc[READER] = "idle"
    /\ nops < MaxOps
    /\ IF files[cache_file(SHARED_PATH)] = Absent
       THEN /\ handle' = Absent
            /\ last' = reader_outcome(op, key, lookup(files, SHARED_PATH, key))
            /\ stats' = IF op = "get"
                        THEN stats_after(stats, lookup(files, SHARED_PATH, key))
                        ELSE stats
            /\ nops' = nops + 1
            /\ UNCHANGED pc
       ELSE /\ pc' = [pc EXCEPT ![READER] = "exists"]
            /\ UNCHANGED <<handle, last, stats, nops>>
    /\ UNCHANGED <<files, tmpfiles, temps>>

\* _load_entry: open and json.load read the file the name denotes now
\* (os.replace never leaves the name without a file), then the key is
\* compared.
Load(op, key) ==
    /\ pc[READER] = "exists"
    /\ pc' = [pc EXCEPT ![READER] = "idle"]
    /\ handle' = files[cache_file(SHARED_PATH)]
    /\ last' = reader_outcome(op, key, lookup(files, SHARED_PATH, key))
    /\ stats' = IF op = "get"
                THEN stats_after(stats, lookup(files, SHARED_PATH, key))
                ELSE stats
    /\ nops' = nops + 1
    /\ UNCHANGED <<files, tmpfiles, temps>>

ProcIdle ==
    /\ pc = [p \in Writers \cup {READER} |-> "idle"]
    /\ temps = [w \in Writers |-> Absent]
    /\ handle = Absent

ProcNext ==
    /\ \/ \E w \in Writers : Mkstemp(w)
       \/ \E w \in Writers : WriteStart(w)
       \/ \E w \in Writers : WriteEnd(w)
       \/ \E w \in Writers : Replace(w)
       \/ \E w \in Writers : SaveFails(w)
       \/ \E op \in {"get", "check_status"}, key \in ReaderKeys : Exists(op, key)
       \/ \E op \in {"get", "check_status"}, key \in ReaderKeys : Load(op, key)
    /\ UNCHANGED <<diff_vars, ignore_vars, build_vars, scan_vars>>

\* -------------------------------------------------------- specifications

\* The cache operations on an empty cache directory.
CacheInit == CacheIdle /\ DiffIdle /\ IgnoreIdle /\ BuildIdle /\ ProcIdle

CacheSpec == CacheInit /\ [][CacheNext /\ UNCHANGED <<diff_vars, ignore_vars, build_vars, scan_vars, proc_vars>>]_vars

\* Every previous manifest and current snapshot over the paths and hashes.
DiffInit ==
    /\ ProcIdle
    /\ CacheIdle /\ IgnoreIdle /\ BuildIdle
    /\ \E pm \in FileMaps, cm \in FileMaps :
        /\ prev = BuildManifest("v1", "best_effort",
                                compute_scan_hash(file_list(pm), "best_effort"), file_list(pm))
        /\ cur_files = file_list(cm)
    /\ changes = [r \in Runs |-> NoChangeSet]

DiffSpec == DiffInit /\ [][DiffNext]_vars

IgnoreInit ==
    /\ ProcIdle
    /\ CacheIdle /\ DiffIdle /\ BuildIdle /\ MatchIdle
    /\ ig_path \in IgnorePaths
    /\ ig_patterns = <<>>
    /\ ig_ignored = should_ignore(ig_path, <<>>)

IgnoreSpec == IgnoreInit /\ [][IgnoreNext]_vars

\* Every path and pattern of the bounded sets, before the call.
MatchInit ==
    /\ ProcIdle
    /\ CacheIdle /\ DiffIdle /\ BuildIdle
    /\ ig_path = <<>> /\ ig_patterns = <<>> /\ ig_ignored = FALSE
    /\ m_path \in MatchPaths
    /\ m_pattern \in MatchPatterns
    /\ m_result = "unset"

MatchSpec == MatchInit /\ [][MatchNext]_vars

\* A project root never built: the user's files and .contextignore, in a
\* git worktree or not.
BuildInit ==
    /\ ProcIdle
    /\ CacheIdle /\ DiffIdle
    /\ ig_path = <<>> /\ ig_ignored = FALSE /\ MatchIdle
    /\ ig_patterns \in ContextIgnores
    /\ git_mode \in BOOLEAN
    /\ gitignore \in (IF git_mode THEN GitIgnores ELSE {{}})
    /\ \E user \in SUBSET UserPaths :
        LET t == [p \in user |-> <<"h1">>] IN
        tree = IF ig_patterns = <<>> THEN t
               ELSE write_file(t, CONTEXTIGNORE, lines_content(ig_patterns))
    /\ ran = Ran("none", 0)
    /\ steps = 0
    /\ ScanIdle

BuildSpec == BuildInit /\ [][BuildNext]_vars

\* The project's .contextignore in the roots already built.
BuiltIgnores == {<<>>, <<(<<"d", "/">>)>>}

\* A populated cache directory and a new Cache instance on it: entries or
\* garbage under the entry names, with or without the manifest of a build
\* and a leftover temporary file.
StoredInit ==
    /\ ProcIdle
    /\ IgnoreIdle /\ BuildIdle
    /\ files \in [CacheFiles -> UNION {StoredContents(n) : n \in CacheFiles}]
    /\ \A n \in CacheFiles : files[n] \in StoredContents(n)
    /\ tmpfiles \in {0, 1}
    /\ stats = [hits |-> 0, misses |-> 0, tokens_saved |-> 0]
    /\ last = Outcome("init", "", NoKey, None)
    /\ nops = 0
    /\ prev \in {NoManifest, BuildManifest("v1", "best_effort", <<>>, <<>>)}
    /\ cur_files = <<>>
    /\ changes = [r \in Runs |-> NoChangeSet]

StoredSpec == StoredInit /\ [][StoredNext]_vars

\* A root after a full build: the user's files and .contextignore, the
\* cache entries, the output file and the manifest the build wrote.
ChangesInit ==
    /\ ProcIdle
    /\ CacheIdle
    /\ ig_path = <<>> /\ ig_ignored = FALSE /\ MatchIdle
    /\ ig_patterns \in BuiltIgnores
    /\ git_mode \in BOOLEAN
    /\ gitignore \in (IF git_mode THEN GitIgnores ELSE {{}})
    /\ ScanIdle
    /\ \E user \in SUBSET UserPaths :
        LET t0 == [p \in user |-> <<"h1">>]
            t1 == IF ig_patterns = <<>> THEN t0
                  ELSE write_file(t0, CONTEXTIGNORE, lines_content(ig_patterns))
            b == full_build(t1, scan(t1, TRUE, FALSE, git_mode, GIT_OK, gitignore, {}, ig_patterns, {}))
        IN /\ tree = b.tree
           /\ prev = b.manifest
    /\ cur_files = <<>>
    /\ changes = [r \in Runs |-> NoChangeSet]
    /\ ran = Ran("build", 0)
    /\ steps = 0

ChangesSpec == ChangesInit /\ [][ChangesNext]_vars

\* An existing root directory before scan is called: with or without git on
\* PATH, a repository top level or not (then possibly with a merge in
\* progress), and outside a repository possibly with submodule directories.
ScanInit ==
    /\ ProcIdle
    /\ CacheIdle /\ DiffIdle
    /\ ig_path = <<>> /\ ig_ignored = FALSE /\ MatchIdle
    /\ ig_patterns \in ScanIgnores
    /\ git_on_path \in BOOLEAN
    /\ git_mode \in BOOLEAN
    /\ gitignore = {}
    /\ gitmodules \in (IF git_mode THEN {{}} ELSE Registrations)
    /\ git_runs \in (IF git_on_path /\ git_mode THEN GitRuns ELSE {GitHealthy})
    /\ \E user \in SUBSET ScanPaths, pointer \in BOOLEAN :
        LET t0 == [p \in user |-> <<"h1">>]
            t1 == IF pointer /\ ~git_mode THEN write_file(t0, POINTER_FILE, GITDIR) ELSE t0
        IN /\ tree = IF ig_patterns = <<>> THEN t1
                     ELSE write_file(t1, CONTEXTIGNORE, lines_content(ig_patterns))
           /\ pointer => ~git_mode
           /\ unmerged \in (IF git_mode THEN SUBSET (user \cap {<<"a", ".", "p", "y">>}) ELSE {{}})
    /\ ran = Ran("none", 0)
    /\ steps = 0
    /\ scanned = NoScan
    /\ hash_inputs = NoScanHash

ScanSpec == ScanInit /\ [][ScanNext]_vars

\* Every list of file summaries over the paths and hashes, the empty one
\* included.
HashInit ==
    /\ ProcIdle
    /\ CacheIdle /\ IgnoreIdle /\ BuildIdle
    /\ prev = NoManifest
    /\ changes = [r \in Runs |-> NoChangeSet]
    /\ \E m \in FileMaps : cur_files = file_list(m)

HashSpec == HashInit /\ [][HashNext]_vars

\* Manifests and snapshots over four paths: two files can be renamed at
\* once, or one renamed beside others added and deleted.
RenamePaths == {<<"a">>, <<"b">>, <<"c">>, <<"d">>}

RenameMaps == UNION {[S -> DiffHashes] : S \in SUBSET RenamePaths}

RenameInit ==
    /\ ProcIdle
    /\ CacheIdle /\ IgnoreIdle /\ BuildIdle
    /\ \E pm \in RenameMaps, cm \in RenameMaps :
        /\ prev = BuildManifest("v1", "best_effort",
                                compute_scan_hash(file_list(pm), "best_effort"), file_list(pm))
        /\ cur_files = file_list(cm)
    /\ changes = [r \in Runs |-> NoChangeSet]

RenameSpec == RenameInit /\ [][DiffNext]_vars

\* A cache directory where the shared path has no entry or a complete one,
\* and no process has started.
ProcInit ==
    /\ DiffIdle /\ IgnoreIdle /\ BuildIdle /\ ProcIdle
    /\ \E before \in {Absent, json_dump(PreviousEntry)} :
          files = [n \in CacheFiles |-> IF n = cache_file(SHARED_PATH) THEN before ELSE Absent]
    /\ tmpfiles = 0
    /\ stats = [hits |-> 0, misses |-> 0, tokens_saved |-> 0]
    /\ last = Outcome("init", "", NoKey, None)
    /\ nops = 0

ProcSpec == ProcInit /\ [][ProcNext]_vars

\* ------------------------------------------------------------------ claims

\* The last operation stored an entry: a put that returned, or a
\* get_or_create that missed, was given a summary and returned.
Stored ==
    \/ last.op = "put" /\ ~last.raised
    \/ /\ last.op = "get_or_create"
       /\ ~last.raised /\ ~last.cache_hit /\ last.summary # None

KeyComponents == {"source_hash", "prompt_hash", "backend_id", "tool_version"}

\* The components in which two keys differ.
Differing(k1, k2) == {c \in KeyComponents : k1[c] # k2[c]}

ReasonOf(c) ==
    CASE c = "source_hash" -> "source_changed"
      [] c = "prompt_hash" -> "prompt_changed"
      [] c = "backend_id" -> "backend_changed"
      [] OTHER -> "tool_changed"

\* C1: right after a successful put(P, K, S), or a get_or_create(P, K, S)
\* that missed and stored, the lookup that get and get_or_create make for
\* (P, K) does not raise and is a hit with summary S and no staleness reason.
C1_PutThenGetHits ==
    Stored =>
        LET r == lookup(files, last.path, last.key) IN
        /\ ~r.raised
        /\ r.hit
        /\ r.reason = None
        /\ r.entry.summary = last.summary

\* C1 witness: a get that followed a store returned a hit with the stored summary.
C1_Witness ==
    /\ last.op = "get" /\ nops = 2
    /\ last.cache_hit /\ last.result_summary = "{'k': 1}"
    /\ last.staleness_reason = None

\* C2: right after a successful put(P, K, S), a lookup of P with a key that
\* differs from K in exactly one component misses and reports the reason
\* that names that component.
C2_SingleComponentReason ==
    (last.op = "put" /\ ~last.raised) =>
        \A k \in Keys : \A c \in KeyComponents :
            Differing(k, last.key) = {c} =>
                LET r == lookup(files, last.path, k) IN
                /\ ~r.raised
                /\ ~r.hit
                /\ r.reason = ReasonOf(c)

\* C2 witness: a get after a put, with only the backend id changed, missed
\* with backend_changed.
C2_Witness ==
    /\ last.op = "get" /\ ~last.cache_hit
    /\ last.staleness_reason = "backend_changed"
    /\ load_entry(files, last.path).status = "entry"
    /\ Differing(last.key, load_entry(files, last.path).entry) = {"backend_id"}

\* C3: a get or check_status of a path whose entry file is not a well-formed
\* entry does not raise and reports not_cached.
C3_MalformedIsNotCached ==
    (/\ last.op \in {"get", "check_status"}
     /\ files[cache_file(last.path)] \in Garbage) =>
        /\ ~last.raised
        /\ last.staleness_reason = "not_cached"

IsAscending(seq) == \A i, j \in DOMAIN seq : i < j => str_lt(seq[i], seq[j])

PrevHashes == file_hashes(prev.files)

CurHashes == file_hashes(cur_files)

OnlyPrev == DOMAIN PrevHashes \ DOMAIN CurHashes

OnlyCur == DOMAIN CurHashes \ DOMAIN PrevHashes

Common == DOMAIN PrevHashes \cap DOMAIN CurHashes

OldPaths(cs) == {cs.renamed[i][1] : i \in DOMAIN cs.renamed}

NewPaths(cs) == {cs.renamed[i][2] : i \in DOMAIN cs.renamed}

\* C5: in every ChangeSet compute_changes returns, added, modified and
\* deleted are pairwise disjoint, and no old or new path of a renamed pair
\* is in added, modified or deleted.
C5_PartitionsDisjoint ==
    \A r \in Runs : changes[r].done =>
        LET cs == changes[r]
            A == Range(cs.added)
            M == Range(cs.modified)
            D == Range(cs.deleted)
        IN
        /\ A \cap M = {} /\ A \cap D = {} /\ M \cap D = {}
        /\ (OldPaths(cs) \cup NewPaths(cs)) \cap (A \cup M \cup D) = {}

\* C5 witness: a ChangeSet with a renamed pair beside a plain deletion.
C5_Witness ==
    /\ changes[1].done
    /\ changes[1].renamed # <<>> /\ changes[1].deleted # <<>>

\* C6: when a path D is only in the previous manifest, a path A only in the
\* current snapshot, both carry one hash and no other deleted or added path
\* carries it, then (D, A) is in renamed, D is not in deleted and A is not in
\* added.
C6_UniqueHashIsRename ==
    \A r \in Runs : changes[r].done =>
        \A D \in OnlyPrev : \A A \in OnlyCur :
            (/\ PrevHashes[D] = CurHashes[A]
             /\ \A q \in OnlyPrev \ {D} : PrevHashes[q] # PrevHashes[D]
             /\ \A q \in OnlyCur \ {A} : CurHashes[q] # CurHashes[A]) =>
                /\ <<D, A>> \in Range(changes[r].renamed)
                /\ D \notin Range(changes[r].deleted)
                /\ A \notin Range(changes[r].added)

\* C6 witness: previous {a: h1}, current {b: h1}: renamed = [(a, b)] and
\* nothing added or deleted.
C6_Witness ==
    /\ PrevHashes = (<<"a">> :> <<"h1">>) /\ CurHashes = (<<"b">> :> <<"h1">>)
    /\ changes[1].done
    /\ changes[1].renamed = <<<<(<<"a">>), (<<"b">>)>>>>
    /\ changes[1].added = <<>> /\ changes[1].deleted = <<>>

\* C7: modified is the ascending list of exactly the paths in both snapshots
\* whose hashes differ, and a path whose hash is unchanged is in no partition.
C7_ModifiedExact ==
    \A r \in Runs : changes[r].done =>
        LET cs == changes[r] IN
        /\ IsAscending(cs.modified)
        /\ Range(cs.modified) = {p \in Common : PrevHashes[p] # CurHashes[p]}
        /\ \A p \in Common : PrevHashes[p] = CurHashes[p] =>
                p \notin Range(cs.added) \cup Range(cs.modified) \cup Range(cs.deleted)
                         \cup OldPaths(cs) \cup NewPaths(cs)

\* C7 witness: two paths modified and a third one unchanged.
C7_Witness ==
    /\ changes[1].done
    /\ Len(changes[1].modified) = 2
    /\ \E p \in Common : PrevHashes[p] = CurHashes[p]

\* C8: two evaluations of compute_changes on the same previous manifest and
\* current snapshot return the same ChangeSet.
C8_Deterministic ==
    (changes[1].done /\ changes[2].done) => changes[1] = changes[2]

\* ---- _should_ignore

\* Whether the i-th pattern of the list matches the path: a negated pattern
\* by its text after the "!".
LineMatches(i) ==
    IF Negated(ig_patterns[i])
    THEN matches_pattern(ig_path, Tail(ig_patterns[i]))
    ELSE matches_pattern(ig_path, ig_patterns[i])

MatchingLines == {i \in DOMAIN ig_patterns : LineMatches(i)}

LastMatching == CHOOSE i \in MatchingLines : \A j \in MatchingLines : j <= i

\* C10: _should_ignore returns the polarity of the last pattern of the list
\* that matches the path: ignored for a plain pattern, not ignored for a
\* negated one, and not ignored when no pattern matches. Hence a matching
\* pattern appended to any list decides the result.
C10_LastMatchWins ==
    ig_ignored = (MatchingLines # {} /\ ~Negated(ig_patterns[LastMatching]))

\* C10 witness: a plain match, then a matching negation, then a plain match
\* again: the path ends up ignored.
C10_Witness ==
    /\ Len(ig_patterns) = 3
    /\ MatchingLines = {1, 2, 3}
    /\ ~Negated(ig_patterns[1]) /\ Negated(ig_patterns[2]) /\ ~Negated(ig_patterns[3])
    /\ ig_ignored

\* ---- build, then build --changes

\* C9: a build --changes run that directly follows a completed full build on
\* the same root exits with 0, computes an empty ChangeSet and a current scan
\* hash equal to the scan hash stored in the manifest.
C9_ChangesAfterBuildIsEmpty ==
    [][(ran.cmd = "build" /\ ran.exit_code = 0 /\ ran'.cmd = "changes") =>
        /\ ran'.exit_code = 0
        /\ is_empty(changes'[1])
        /\ changes'[1].cur_scan_hash = prev.scan_hash]_vars

\* ---- _matches_pattern

\* The glob of the pattern language: "*" any run of non-"/" characters, "?"
\* one non-"/" character, "**" any run, a leading "**/" zero or more leading
\* directories, any other character itself.
RECURSIVE GlobRest(_, _)
GlobRest(glob, i) ==
    IF i > Len(glob) THEN <<>>
    ELSE IF glob[i] = "*" /\ i + 1 <= Len(glob) /\ glob[i + 1] = "*"
    THEN <<Piece("any", "")>> \o GlobRest(glob, i + 2)
    ELSE IF glob[i] = "*" THEN <<Piece("star", "")>> \o GlobRest(glob, i + 1)
    ELSE IF glob[i] = "?" THEN <<Piece("one", "")>> \o GlobRest(glob, i + 1)
    ELSE <<Piece("lit", glob[i])>> \o GlobRest(glob, i + 1)

Glob(glob) ==
    IF StartsWith(glob, <<"*", "*", Slash>>)
    THEN <<Piece("dirs", "")>> \o GlobRest(glob, 4)
    ELSE GlobRest(glob, 1)

\* The glob matches the whole of str.
GlobMatches(glob, str) == re_match(Glob(glob), str)

\* The suffixes of a path obtained by dropping whole leading segments (the
\* path itself and its final segment are among them).
SegmentSuffixes(path) ==
    LET parts == split(path) IN
    {join(SubSeq(parts, i, Len(parts))) : i \in DOMAIN parts}

DirectoryOnly(pattern) == EndsWith(pattern, Slash)

Anchored(pattern) == StartsWith(pattern, <<Slash>>)

\* C11: a pattern without a trailing "/" matches a path iff, when it has a
\* leading "/", the remaining glob matches the whole path, and otherwise the
\* glob matches the whole path, its final segment or one of its suffixes of
\* whole segments.
C11_GlobSemantics ==
    (m_result # "unset" /\ ~DirectoryOnly(m_pattern)) =>
        (m_result = "match") =
            IF Anchored(m_pattern) THEN GlobMatches(Tail(m_pattern), m_path)
            ELSE \E suffix \in SegmentSuffixes(m_path) : GlobMatches(m_pattern, suffix)

\* C12: a directory-only pattern, anchored or not, matches every path that
\* is the directory d it names or starts with d + "/"; unanchored, it also
\* matches every path with a segment equal to d.
C12_DirectoryOnly ==
    (m_result # "unset" /\ DirectoryOnly(m_pattern)) =>
        LET body == SubSeq(m_pattern, 1, Len(m_pattern) - 1)
            d == IF Anchored(body) THEN Tail(body) ELSE body
            parts == split(m_path)
        IN (\/ m_path = d
            \/ StartsWith(m_path, d \o <<Slash>>)
            \/ ~Anchored(body) /\ \E i \in DOMAIN parts : parts[i] = d)
           => m_result = "match"

\* ---- scan

\* C13: for every existing root, scan reports ignore_mode "git" exactly when
\* the git binary is resolvable, mock_git_missing is false and git confirms
\* the root is a repository top level; in every other case the mode is
\* "best_effort" and the warnings hold a warning noting the fallback, also
\* when git is present but the root is not a repository top level.
C13_ModeAndFallbackWarning ==
    [][\A mock_git_missing \in BOOLEAN :
        Scan(mock_git_missing) =>
            /\ (scanned'.ignore_mode = "git") =
                    (/\ git_on_path /\ ~mock_git_missing
                     /\ in_git_worktree(git_mode, git_runs.rev_parse))
            /\ scanned'.ignore_mode # "git" =>
                    (scanned'.ignore_mode = "best_effort" /\ scanned'.warnings # <<>>)]_vars

\* C14: in both modes, also when the git listing repeats a path, the files
\* scan returns are strictly ascending: sorted and free of duplicates.
C14_FilesStrictlyAscending ==
    scanned # NoScan =>
        \A i \in 1..(Len(scanned.files) - 1) : str_lt(scanned.files[i], scanned.files[i + 1])

\* The directories of the root: the proper prefixes, in whole segments, of
\* the paths of its files.
Directories ==
    UNION {{join(SubSeq(split(p), 1, k)) : k \in 1..(Len(split(p)) - 1)} : p \in DOMAIN tree}

Basename(path) == split(path)[Len(split(path))]

\* A directory registered in .gitmodules by its path from the root, or
\* holding a .git pointer file.
IsSubmodule(dir) ==
    \/ dir \in gitmodules
    \/ /\ (dir \o <<Slash>> \o DOT_GIT) \in DOMAIN tree
       /\ StartsWith(tree[dir \o <<Slash>> \o DOT_GIT], GITDIR)

Beneath(path, dir) == StartsWith(path, dir \o <<Slash>>)

\* C15: in a best-effort scan a subdirectory that is hidden, is a submodule
\* or matches the ignore patterns is never visited, and nothing beneath it
\* is visited, tested or returned.
C15_PrunedBeforeDescent ==
    scanned.ignore_mode = "best_effort" =>
        \A dir \in Directories :
            (is_hidden(Basename(dir)) \/ IsSubmodule(dir) \/ should_ignore(dir, ig_patterns)) =>
                /\ dir \notin scanned.walked
                /\ \A p \in scanned.walked \cup scanned.tested \cup Range(scanned.files) :
                        ~Beneath(p, dir)

\* ---- _compute_scan_hash

\* C16: for every set of (path, source_hash) pairs, the empty set included,
\* what _compute_scan_hash digests under ignore mode "git" differs from what
\* it digests under "best_effort".
C16_ScanHashDiffersByMode ==
    (hash_inputs["git"].done /\ hash_inputs["best_effort"].done) =>
        hash_inputs["git"].input # hash_inputs["best_effort"].input

\* ---- build --changes: preconditions

\* The ignore mode a scan of the root reports now.
CurrentMode == scan_mode(git_on_path, FALSE, in_git_worktree(git_mode, git_runs.rev_parse))

\* A step of build --changes.
ChangesStep == steps' = steps + 1 /\ ran'.cmd = "changes"

\* C17: when the ignore mode of the previous manifest differs from the mode
\* of the current scan, build --changes exits with status 2, computes no
\* ChangeSet and leaves the manifest and every cache entry unchanged.
C17_ModeMismatchRefused ==
    [][(ChangesStep /\ prev.exists /\ prev.ignore_mode # CurrentMode) =>
            /\ ran'.exit_code = 2
            /\ UNCHANGED <<tree, prev, changes, cur_files>>]_vars

C17_Witness ==
    /\ ran = Ran("changes", 2)
    /\ prev.exists
    /\ prev.ignore_mode # CurrentMode
    /\ \E p \in DOMAIN tree : StartsWith(p, CACHE_DIRNAME \o <<Slash>>) /\ p # manifest_path

\* C18: when the manifest file is missing or is not a well-formed manifest
\* (invalid encoding, invalid JSON, JSON that is not an object),
\* load_manifest does not raise and yields no manifest, and build --changes
\* exits with status 2 without scanning, diffing or writing anything.
C18_NoManifestRefused ==
    [][(ChangesStep /\ (manifest_path \notin DOMAIN tree
                            \/ tree[manifest_path] \in MalformedManifests)) =>
            /\ ~load_manifest(tree, prev).raised
            /\ ~load_manifest(tree, prev).manifest.exists
            /\ ran'.exit_code = 2
            /\ UNCHANGED <<tree, prev, changes, cur_files>>]_vars

\* ---- check_status, clear

\* One more operation of the Cache instance.
CacheStep(ops) == nops' = nops + 1 /\ last'.op \in ops

C20_ClearCountsEntries ==
    [][/\ CacheStep({"clear"}) =>
            /\ last'.count =
                    Cardinality({n \in CacheFiles : files[n] # Absent /\ files'[n] = Absent})
            /\ \A n \in CacheFiles \ last'.failing : files'[n] = Absent
       /\ (/\ last.op = "clear"
           /\ CacheStep({"get", "check_status"})
           /\ files[cache_file(last'.path)] = Absent) =>
                /\ ~last'.raised
                /\ last'.is_stale
                /\ last'.staleness_reason = "not_cached"]_vars



\* The content of last_build.json, <<>> when there is none.
StoredManifest(t) == IF manifest_path \in DOMAIN t THEN t[manifest_path] ELSE <<>>

\* C21: the manifest (the file last_build.json and the baseline it holds)
\* changes only in a step that is a full build ending with status 0, and
\* then the output file and the cache entry of every file of the manifest
\* are already written; a dry run, a failing build and every build
\* --changes run leave it as it was.
C21_ManifestOnlyByFullBuild ==
    [][(prev' # prev \/ StoredManifest(tree') # StoredManifest(tree)) =>
            /\ ran' = Ran("build", 0)
            /\ steps' = steps + 1
            /\ prev'.exists
            /\ StoredManifest(tree') = manifest_content(prev')
            /\ OUTPUT_FILENAME \in DOMAIN tree'
            /\ \E hits \in 0..Len(prev'.files) :
                  tree'[OUTPUT_FILENAME] =
                      context_content(prev'.scan_hash, hits, Len(prev'.files))
            /\ \A i \in DOMAIN prev'.files :
                  /\ entry_path(prev'.files[i].path) \in DOMAIN tree'
                  /\ tree'[entry_path(prev'.files[i].path)] =
                         entry_content(prev'.files[i].path, prev'.files[i].source_hash)]_vars

\* A build failed after an earlier build had saved a manifest of at least
\* one file, and the saved manifest is still the one of the earlier build.
C21_Witness ==
    /\ ran = Ran("build", 1)
    /\ prev.exists
    /\ Len(prev.files) > 0
    /\ StoredManifest(tree) = manifest_content(prev)

\* The complete entries the final name may hold: the previous one and the
\* one of every writer whose os.replace has happened.
CompleteEntries ==
    {json_dump(PreviousEntry)} \cup
    {json_dump(WriterEntry(w)) : w \in {x \in Writers : pc[x] = "done"}}

\* C22: while two processes put the same path and a third looks it up, in
\* every state the final name is absent or holds the complete previous
\* entry or the complete entry of a writer that has renamed its file; what
\* the reader opened is one of these, its lookup does not raise, and it
\* reports not_cached only when it found no file.
C22_ReaderSeesCompleteEntries ==
    /\ files[cache_file(SHARED_PATH)] \in {Absent} \cup CompleteEntries
    /\ handle \in {Absent} \cup CompleteEntries
    /\ last.op \in {"get", "check_status"} =>
          /\ ~last.raised
          /\ (last.staleness_reason = "not_cached") = (handle = Absent)
          /\ last.cache_hit => last.result_summary = handle.vals.summary

\* The reader got a hit on the entry of one writer while the other writer
\* was in the middle of writing its temporary file.
C22_Witness ==
    /\ last.op = "get" /\ last.cache_hit
    /\ \E w \in Writers :
          /\ pc[w] = "done"
          /\ handle = json_dump(WriterEntry(w))
          /\ \E v \in Writers \ {w} : pc[v] = "writing" /\ temps[v] = partial_dump(WriterEntry(v))

\* The components of a key in the order the spec gives them.
ComponentOrder == <<"source_hash", "prompt_hash", "backend_id", "tool_version">>

\* The reason of the first component, in that order, in which the entry
\* and the key differ; None when they agree.
FirstReason(entry, key) ==
    LET differing == {i \in DOMAIN ComponentOrder : ComponentOrder[i] \in Differing(entry, key)}
    IN IF differing = {} THEN None
       ELSE ReasonOf(ComponentOrder[CHOOSE i \in differing : \A j \in differing : i <= j])

\* C23: for every path and every key, a lookup that does not raise reports
\* not_cached when no entry is stored and otherwise the reason of the first
\* component, in the order source_hash, prompt_hash, backend_id,
\* tool_version, in which the stored entry differs from the key; and that
\* is what the last get or check_status reported.
C23_FirstDifferingComponent ==
    /\ \A p \in Paths : \A k \in Keys :
          LET r == lookup(files, p, k)
              e == load_entry(files, p)
          IN ~r.raised =>
                r.reason = IF e.status = "none" THEN "not_cached"
                           ELSE FirstReason(e.entry, k)
    /\ (last.op \in {"get", "check_status"} /\ ~last.raised) =>
          LET e == load_entry(files, last.path)
          IN last.staleness_reason = IF e.status = "none" THEN "not_cached"
                                     ELSE FirstReason(e.entry, last.key)

\* A get on a stored entry that differs from the key in prompt hash, backend
\* id and tool version, and not in the source hash, reported prompt_changed.
C23_Witness ==
    /\ last.op = "get" /\ ~last.raised
    /\ load_entry(files, last.path).status = "entry"
    /\ Differing(load_entry(files, last.path).entry, last.key) =
          {"prompt_hash", "backend_id", "tool_version"}
    /\ last.staleness_reason = "prompt_changed"

\* C24: every get or get_or_create call adds one to hits + misses, adds one
\* to hits exactly when it returned a hit, and then adds the stored
\* approx_tokens of the entry served to tokens_saved; put and check_status
\* leave the three counters as they were, and no counter ever decreases.
C24_CountersCountGets ==
    [][/\ CacheStep({"get", "get_or_create"}) =>
            /\ stats'.hits + stats'.misses = stats.hits + stats.misses + 1
            /\ stats'.hits = stats.hits + (IF last'.cache_hit THEN 1 ELSE 0)
            /\ stats'.tokens_saved = stats.tokens_saved +
                  (IF last'.cache_hit
                   THEN load_entry(files, last'.path).entry.approx_tokens ELSE 0)
       /\ CacheStep({"put", "check_status"}) => stats' = stats
       /\ stats'.hits >= stats.hits
       /\ stats'.misses >= stats.misses
       /\ stats'.tokens_saved >= stats.tokens_saved]_vars

\* C25: no file a best-effort scan returns lies beneath a directory whose
\* path from the root is registered in .gitmodules, at any depth, nor
\* beneath a directory holding a .git pointer file that starts with
\* "gitdir:".
C25_NothingBeneathSubmodules ==
    scanned.ignore_mode = "best_effort" =>
        \A i \in DOMAIN scanned.files :
            \A dir \in Directories :
                Beneath(scanned.files[i], dir) => ~IsSubmodule(dir)

\* C26: a scan whose git commands run (git on PATH, .git at the root) and
\* one of which ends with a status other than 0, times out or cannot be
\* started reports ignore_mode "best_effort" and returns the files of the
\* tree walk.
C26_GitFailureFallsBack ==
    [][(/\ Scan(FALSE)
        /\ git_on_path /\ git_mode
        /\ git_runs # GitHealthy) =>
            /\ scanned'.ignore_mode = "best_effort"
            /\ scanned'.files =
                  scan_directory(tree, ig_patterns, get_submodule_paths(gitmodules))]_vars

\* C27: a successful put(P, K, S), whatever the directory held for P
\* before, leaves exactly the entry (K, S) for P: a lookup of P hits with
\* S for K and misses for every other key, the key of an earlier put
\* included, and no other file of the directory has changed; a put that
\* raises leaves the entries as they were; get and check_status never
\* create, modify or delete a persisted entry.
C27_LatestPutWins ==
    [][/\ (CacheStep({"put"}) /\ ~last'.raised) =>
            /\ \A k \in Keys :
                  LET r == lookup(files', last'.path, k) IN
                  /\ ~r.raised
                  /\ r.hit = (k = last'.key)
                  /\ r.hit => r.entry.summary = last'.summary
            /\ \A n \in CacheFiles \ {cache_file(last'.path)} : files'[n] = files[n]
            /\ tmpfiles' = tmpfiles
       /\ (CacheStep({"put"}) /\ last'.raised) => files' = files
       /\ CacheStep({"get", "check_status"}) =>
            (files' = files /\ tmpfiles' = tmpfiles /\ prev' = prev)]_vars

\* After a put on a populated directory, a get with the key of the entries
\* stored before missed on an entry that carries the key and the summary
\* of the put.
C27_Witness ==
    /\ nops = 2
    /\ last.op = "get" /\ ~last.raised /\ ~last.cache_hit
    /\ last.key = CacheKey("s1", "p1", "b1", "v1")
    /\ last.staleness_reason = "source_changed"
    /\ load_entry(files, last.path).status = "entry"
    /\ load_entry(files, last.path).entry.summary = "{}"
    /\ load_entry(files, last.path).entry.source_hash = "s2"

\* C28: in every ChangeSet each renamed pair (old, new) has old only in the
\* previous manifest, new only in the current snapshot and the previous
\* hash of old equal to the current hash of new; no old path and no new
\* path occurs in two pairs; the pairs are in ascending order of their new
\* path.
C28_RenamedPairsWellFormed ==
    \A r \in Runs : changes[r].done =>
        LET ren == changes[r].renamed IN
        /\ \A i \in DOMAIN ren :
              /\ ren[i][1] \in OnlyPrev
              /\ ren[i][2] \in OnlyCur
              /\ PrevHashes[ren[i][1]] = CurHashes[ren[i][2]]
        /\ \A i, j \in DOMAIN ren :
              i # j => (ren[i][1] # ren[j][1] /\ ren[i][2] # ren[j][2])
        /\ IsAscending([i \in DOMAIN ren |-> ren[i][2]])

\* Two files renamed at once, the old paths in the opposite order of the
\* new ones.
C28_Witness ==
    /\ changes[1].done
    /\ Len(changes[1].renamed) = 2
    /\ str_lt(changes[1].renamed[2][1], changes[1].renamed[1][1])

\* C29: in every ChangeSet the added paths and the new paths of the renamed
\* pairs are, each once, exactly the paths only in the current snapshot;
\* the deleted paths and the old paths of the pairs are, each once, exactly
\* the paths only in the previous manifest; added and deleted are in
\* ascending order; and the ChangeSet is empty exactly when the previous
\* and the current map from path to hash are equal.
C29_EveryDifferenceOnce ==
    \A r \in Runs : changes[r].done =>
        LET cs == changes[r] IN
        /\ Range(cs.added) \cup NewPaths(cs) = OnlyCur
        /\ Range(cs.added) \cap NewPaths(cs) = {}
        /\ Range(cs.deleted) \cup OldPaths(cs) = OnlyPrev
        /\ Range(cs.deleted) \cap OldPaths(cs) = {}
        /\ Len(cs.added) + Len(cs.renamed) = Cardinality(OnlyCur)
        /\ Len(cs.deleted) + Len(cs.renamed) = Cardinality(OnlyPrev)
        /\ IsAscending(cs.added)
        /\ IsAscending(cs.deleted)
        /\ is_empty(cs) = (PrevHashes = CurHashes)

\* One file renamed beside one added with the same hash and one deleted.
C29_Witness ==
    /\ changes[1].done
    /\ Len(changes[1].renamed) = 1
    /\ Len(changes[1].added) = 1
    /\ Len(changes[1].deleted) = 1
    /\ CurHashes[changes[1].added[1]] = CurHashes[changes[1].renamed[1][2]]

\* C30: a put or get_or_create for a path P leaves what a lookup reports
\* for every other path Q and every key as it was, also when the truncated
\* hashes of P and Q are equal; and a get for Q that hits serves an entry
\* whose recorded path is Q.
C30_PathsIsolated ==
    [][/\ CacheStep({"put", "get_or_create"}) =>
            \A Q \in Paths \ {last'.path} : \A k \in Keys :
                lookup(files', Q, k) = lookup(files, Q, k)
       /\ (CacheStep({"get"}) /\ last'.cache_hit) =>
            load_entry(files, last'.path).entry.path = last'.path]_vars
====
